---------------------------- MODULE Spec2Model ----------------------------
(***************************************************************************)
(* Model of the resilience layer of StudyTutor's external knowledge        *)
(* client: CircuitBreaker and RateLimiter (tutor/core/wikimedia_           *)
(* retriever.py), TTLCache (tutor/core/cache_manager.py) and the fetch     *)
(* path WikimediaRetriever.search -> CircuitBreaker.call ->                *)
(* _fetch_with_maxlag, with the layers above them: search_wikipedia_cached *)
(* and hybrid_retrieve (knowledge_sources.py), retrieve and its ranking    *)
(* (retrieval.py, multi_query.py) and load_index_and_meta (indexing.py).   *)
(*                                                                         *)
(* Each component has its own specification; a component that a            *)
(* specification does not exercise stays in its constructed state.         *)
(***************************************************************************)
EXTENDS Integers, Sequences, FiniteSets, TLC

VARIABLES
    \* ---- clock: datetime.now(), in whole ticks
    now,
    \* ---- CircuitBreaker (wikimedia_retriever.py:46-103)
    failure_threshold, timeout, success_threshold,
    state, failures, successes, last_failure_time,
    \* position of each caller of CircuitBreaker.call, and the breaker state
    \* it was admitted under
    pc, admitted,
    \* WikimediaRetriever.search: loop index of the request's
    \* _fetch_with_maxlag, whether every attempt so far ended in
    \* httpx.TimeoutException, and what search returned
    attempt, onlyTimeouts, result,
    \* history: consecutive failures of the wrapped function since its last
    \* success; consecutive successes since the breaker last became HALF_OPEN
    streak, halfOpenStreak,
    \* ---- RateLimiter (wikimedia_retriever.py:106-128): rate in tokens per
    \* second, tokens in TokenParts-ths of a token
    rate, tokens, last_update,
    \* asyncio.Lock of the limiter: its holder (or "free") and the tasks
    \* queued on it, first come first
    holder, waiters,
    \* position of each caller of acquire, and the time its sleep ends
    lpc, wake,
    \* history, kept by the limiter's specifications: acquire calls entered
    \* and returned, time of the first entry
    entered, acquired, first_entry,
    \* ---- TTLCache (cache_manager.py:12-96): _cache as the sequence of its
    \* entries [key, ts, value] in dict order, ttl in ticks
    max_size, ttl, cache, hits, misses,
    \* the last operation on the cache with its key and what it returned
    ret,
    \* ---- search_wikipedia_cached (knowledge_sources.py:62-121): the
    \* configuration (config.py:25, 37), whether `import httpx` succeeded
    \* (wikimedia_retriever.py:24-27), the module's _wikimedia_retriever and
    \* its _client
    WIKIMEDIA_ENABLED, WIKIMEDIA_USER_AGENT, httpx_installed,
    wikimedia_retriever, client,
    \* position of each caller of search_wikipedia_cached, its query, and
    \* what the call gave its caller: a value, or the exception that escaped
    stage, query, outcome,
    \* ---- hybrid_retrieve (knowledge_sources.py:124-199): position of
    \* each caller and its query, what local_task and wiki_task ended in,
    \* and what the call gave its caller
    hstage, hquery, local_task, wiki_task, hybrid,
    \* ---- _single_query_retrieve (retrieval.py:118-139): what
    \* index.search and bm25.get_scores come to, the arguments
    \* hybrid_enabled, k (k_results) and rrf_constant, the hits of the two
    \* searches, what the call returned, what _rrf_fuse returns for the
    \* two lists swapped, and the position of the call
    faiss, bm25_scores, hybrid_enabled, k_results, rrf_constant,
    vector_hits, lexical_hits, retrieved, fused_swapped, rstage,
    \* ---- deduplicate_results (multi_query.py:199-249): its arguments,
    \* what it returned, and the position of the call
    all_results, top_k, deduplicated, dstage,
    \* ---- generate_multi_queries (multi_query.py:24-64): its arguments,
    \* what the generation backend comes to, the list of lines 43-53 before
    \* it is deduplicated, what the call returned, and the position of the
    \* call
    original_query, num_queries, use_llm, llm, candidates, returned_queries,
    qstage,
    \* ---- should_query_wikimedia (knowledge_sources.py:23-59): the query
    \* it was last called with (<<q>>, <<>> before the first call) and what
    \* it returned
    asked, should_query,
    \* ---- WikimediaRetriever._build_url (wikimedia_retriever.py:244-277):
    \* self.api_endpoint, the arguments action and params (the dict as the
    \* sequence of its items), and how the call ended, with the URL it
    \* returned
    api_endpoint, api_action, api_params, built_url,
    \* ---- WikimediaRetriever(user_agent=...) (wikimedia_retriever.py:
    \* 186-223): the argument, and what the construction ended in
    user_agent, constructed,
    \* ---- WikimediaRetriever._parse_response (wikimedia_retriever.py:
    \* 326-374): the page's "extract", self.max_extract_length, and how the
    \* call ended, with the extract of the record it returned
    page_extract, max_extract_length, parsed,
    \* ---- retrieve (retrieval.py:13-97): the arguments use_multi_query
    \* and k, what _single_query_retrieve comes to for each of the generated
    \* queries and for the query itself, and how the call ended, with the
    \* hits it returned
    use_multi_query, k_retrieve, per_query, for_original, retrieve_result,
    \* ---- load_index_and_meta (indexing.py:74-130): whether the index and
    \* metadata files exist, config.EMBED_BACKEND, what CONFIG_PATH holds,
    \* index.d, and how the call ended, with the index it returned and what
    \* it logged
    index_files, EMBED_BACKEND, stored_config, index_d, loaded,
    \* ---- the module's retriever under concurrent requests
    \* (wikimedia_retriever.py:225-242, 291-298): every httpx.AsyncClient
    \* that __aenter__ made, open or closed, in the order of creation; which
    \* of them self._client is (0 for None); the client each request's GET
    \* is in flight on (0 for none); and the position of each request
    http_clients, self_client, in_flight, request

breakerVars == <<failure_threshold, timeout, success_threshold, state,
                 failures, successes, last_failure_time, pc, admitted,
                 streak, halfOpenStreak>>

fetchVars == <<attempt, onlyTimeouts, result>>

limiterVars == <<rate, tokens, last_update, holder, waiters, lpc, wake,
                 entered, acquired, first_entry>>

cacheVars == <<max_size, ttl, cache, hits, misses, ret>>

pipelineVars == <<WIKIMEDIA_ENABLED, WIKIMEDIA_USER_AGENT, httpx_installed,
                  wikimedia_retriever, client, stage, query, outcome>>

\* the orchestration and ranking layers above the resilience layer
hybridVars == <<hstage, hquery, local_task, wiki_task, hybrid>>

rankingVars == <<faiss, bm25_scores, hybrid_enabled, k_results,
                 rrf_constant,
                 vector_hits, lexical_hits, retrieved, fused_swapped,
                 rstage>>

dedupVars == <<all_results, top_k, deduplicated, dstage>>

queriesVars == <<original_query, num_queries, use_llm, llm, candidates,
                 returned_queries, qstage>>

triggerVars == <<asked, should_query>>

urlVars == <<api_endpoint, api_action, api_params, built_url>>

constructorVars == <<user_agent, constructed>>

parseVars == <<page_extract, max_extract_length, parsed>>

multiVars == <<use_multi_query, k_retrieve, per_query, for_original,
               retrieve_result>>

loadVars == <<index_files, EMBED_BACKEND, stored_config, index_d, loaded>>

sharedVars == <<http_clients, self_client, in_flight, request>>

\* the further functions called one at a time, and the shared retriever
callVars == <<parseVars, multiVars, loadVars, sharedVars>>

\* the functions called one at a time
functionVars == <<queriesVars, triggerVars, urlVars, constructorVars,
                  callVars>>

retrievalVars == <<pipelineVars, hybridVars, rankingVars, dedupVars,
                   functionVars>>

\* what a step of the breaker or of a search leaves alone
outsideBreaker == <<limiterVars, cacheVars, retrievalVars>>
\* what a step of the limiter leaves alone
outsideLimiter == <<breakerVars, fetchVars, cacheVars, retrievalVars>>
\* what a step of the cache leaves alone
outsideCache == <<breakerVars, fetchVars, limiterVars, retrievalVars>>

\* what a step of the orchestration leaves alone
outsideOrchestration == <<rankingVars, dedupVars, functionVars>>
\* what a step of _single_query_retrieve leaves alone
outsideRanking == <<now, breakerVars, fetchVars, limiterVars, cacheVars,
                    pipelineVars, hybridVars, dedupVars, functionVars>>
\* what a step of deduplicate_results leaves alone
outsideDedup == <<now, breakerVars, fetchVars, limiterVars, cacheVars,
                  pipelineVars, hybridVars, rankingVars, functionVars>>
\* what a call of generate_multi_queries leaves alone
outsideQueries == <<now, breakerVars, fetchVars, limiterVars, cacheVars,
                    pipelineVars, hybridVars, rankingVars, dedupVars,
                    triggerVars, urlVars, constructorVars, callVars>>
\* what a call of should_query_wikimedia leaves alone
outsideTrigger == <<now, breakerVars, fetchVars, limiterVars, cacheVars,
                    pipelineVars, hybridVars, rankingVars, dedupVars,
                    queriesVars, urlVars, constructorVars, callVars>>
\* what a call of _build_url leaves alone
outsideUrl == <<now, breakerVars, fetchVars, limiterVars, cacheVars,
                pipelineVars, hybridVars, rankingVars, dedupVars,
                queriesVars, triggerVars, constructorVars, callVars>>
\* what a construction of a WikimediaRetriever leaves alone
outsideConstructor == <<now, breakerVars, fetchVars, limiterVars, cacheVars,
                        pipelineVars, hybridVars, rankingVars, dedupVars,
                        queriesVars, triggerVars, urlVars, callVars>>

\* what a call of one of the further functions leaves alone, the other
\* further functions apart
outsideCalls == <<now, breakerVars, fetchVars, limiterVars, cacheVars,
                  pipelineVars, hybridVars, rankingVars, dedupVars,
                  queriesVars, triggerVars, urlVars, constructorVars>>

\* what a step of a request on the shared retriever leaves alone
outsideShared == <<outsideCalls, parseVars, multiVars, loadVars>>

vars == <<now, breakerVars, fetchVars, limiterVars, cacheVars,
          retrievalVars>>

---------------------------------------------------------------------------
(* Bounds of the model *)

\* the clock stops at MaxTime ticks
MaxTime == 4
\* CircuitBreaker(failure_threshold, timeout, success_threshold) is
\* constructed with every combination of values up to these
MaxFailureThreshold == 3
MaxTimeout == 2
MaxSuccessThreshold == 2
\* over unbounded time the wrapped functions raise while fewer than
\* MaxLiveFailures failures are counted
MaxLiveFailures == 3

\* seconds in a tick of the clock of the retriever's specifications
TickSeconds == 30

\* RateLimiter(calls_per_second) is constructed with every whole rate up to
\* MaxRate; a token has TokenParts parts; the limiter's clock stops at
\* MaxLimiterTime ticks and MaxAcquires calls of acquire are made
MaxRate == 2
TokenParts == 2
MaxLimiterTime == 8
MaxAcquires == 6

\* TTLCache(max_size, ttl_seconds) is constructed with every max_size from
\* 1 and every ttl from 0 up to these; the cache's clock stops at
\* MaxCacheTime ticks and MaxGets calls of get are counted between clears
MaxSize == 2
MaxTTL == 1
MaxCacheTime == 3
MaxGets == 2

\* MaxLookups calls of search_wikipedia_cached look the cache up
MaxLookups == 6
\* hybrid_retrieve is called until MaxHybridLookups of its calls have
\* looked the cache up
MaxHybridLookups == 3

\* the index has MaxVectors vectors; BM25 scores are whole numbers up to
\* MaxBm25Score; k is at most MaxK
MaxVectors == 4
MaxBm25Score == 2
MaxK == 3

\* deduplicate_results gets at most MaxResults hits and a top_k of at most
\* MaxTopK
MaxResults == 6
MaxTopK == 2

\* generate_multi_queries is asked for at most MaxQueries queries and the
\* generation backend answers with at most MaxLines lines
MaxQueries == 3
MaxLines == 3

\* should_query_wikimedia is asked queries of at most MaxQueryWords words,
\* _build_url gets at most MaxParams parameters, and a User-Agent has at
\* most MaxUserAgentWords words
MaxQueryWords == 3
MaxParams == 2
MaxUserAgentWords == 3

\* the "extract" of a page: at most MaxRuns runs of one character, each of
\* one character or within MaxOver of the minimum usable length, as
\* max_extract_length is
MaxRuns == 3
MaxOver == 1

\* retrieve generates at most MaxVariants queries, and the retrieval of one
\* query brings at most MaxVariantHits hits
MaxVariants == 2
MaxVariantHits == 1

\* the dimensions of an index and of a stored configuration
MaxDim == 2

\* the concurrent requests enter the shared retriever MaxClients times
MaxClients == 3

\* cache keys and cached values
Keys == {"k1", "k2", "k3"}
Values == {"v1", "v2"}

\* concurrent callers (asyncio tasks) sharing one breaker
Callers == {"c1", "c2"}
\* the single caller of the sequential specifications
SeqCallers == {"c1"}

---------------------------------------------------------------------------
(* Clock *)

\* Optional[datetime] = None
None == -1

Tick ==
    /\ now < MaxTime
    /\ now' = now + 1

---------------------------------------------------------------------------
(* CircuitBreaker *)

\* CircuitBreaker.__init__, lines 59-62: CLOSED, counters 0, no failure yet
BreakerFresh ==
    /\ state = "CLOSED"
    /\ failures = 0
    /\ successes = 0
    /\ last_failure_time = None
    /\ pc = [c \in Callers |-> "idle"]
    /\ admitted = [c \in Callers |-> "none"]
    /\ streak = 0
    /\ halfOpenStreak = 0

\* CircuitBreaker(failure_threshold, timeout, success_threshold), timeout in
\* ticks
BreakerInit ==
    /\ failure_threshold \in 1..MaxFailureThreshold
    /\ timeout \in 0..MaxTimeout
    /\ success_threshold \in 1..MaxSuccessThreshold
    /\ BreakerFresh

\* the defaults of CircuitBreaker.__init__
DefaultFailureThreshold == 5
DefaultTimeout == 60
DefaultSuccessThreshold == 2

\* WikimediaRetriever.__init__, line 222: self.circuit_breaker =
\* CircuitBreaker(). Elapsed time is a whole number k of ticks, and
\* k * TickSeconds > 60 exactly when k > 60 \div TickSeconds
RetrieverBreakerInit ==
    /\ failure_threshold = DefaultFailureThreshold
    /\ timeout = DefaultTimeout \div TickSeconds
    /\ success_threshold = DefaultSuccessThreshold
    /\ BreakerFresh

\* TimeoutElapsed with >= for >: a call exactly timeout after the last
\* failure is let through
TimeoutElapsedInclusive ==
    /\ last_failure_time # None
    /\ now - last_failure_time >= timeout

\* TimeoutElapsed with the subtraction the other way round: no time after
\* the last failure is late enough
TimeoutElapsedSwapped ==
    /\ last_failure_time # None
    /\ last_failure_time - now > timeout

\* call, line 69: self.last_failure_time and
\*   datetime.now() - self.last_failure_time > timedelta(seconds=self.timeout)
TimeoutElapsed ==
    /\ last_failure_time # None
    /\ now - last_failure_time > timeout

\* call, lines 67-73: the state a caller is let through under, or "reject"
\* for CircuitBreakerOpenError
Admission ==
    IF state = "OPEN"
    THEN IF TimeoutElapsed THEN "HALF_OPEN" ELSE "reject"
    ELSE state

\* Enter that counts a rejected call as a failure
EnterCountsRejection(c) ==
    /\ pc[c] = "idle"
    /\ IF Admission = "reject"
       THEN /\ pc' = [pc EXCEPT ![c] = "open_error"]
            /\ failures' = failures + 1
            /\ last_failure_time' = now
            /\ UNCHANGED <<state, admitted>>
       ELSE /\ state' = Admission
            /\ pc' = [pc EXCEPT ![c] = "running"]
            /\ admitted' = [admitted EXCEPT ![c] = Admission]
            /\ UNCHANGED <<failures, last_failure_time>>
    /\ halfOpenStreak' = IF state = "OPEN" THEN 0 ELSE halfOpenStreak
    /\ UNCHANGED <<failure_threshold, timeout, success_threshold, successes,
                   streak, now>>

\* call, lines 67-76: the locked check, then the wrapped function starts
Enter(c) ==
    /\ pc[c] = "idle"
    /\ IF Admission = "reject"
       THEN /\ pc' = [pc EXCEPT ![c] = "open_error"]
            /\ UNCHANGED <<state, admitted>>
       ELSE /\ state' = Admission
            /\ pc' = [pc EXCEPT ![c] = "running"]
            /\ admitted' = [admitted EXCEPT ![c] = Admission]
    /\ halfOpenStreak' = IF state = "OPEN" THEN 0 ELSE halfOpenStreak
    /\ UNCHANGED <<failure_threshold, timeout, success_threshold, failures,
                   successes, last_failure_time, streak, now>>

\* OnSuccess that closes the breaker without resetting failures
OnSuccessKeepsFailures ==
    /\ IF state = "HALF_OPEN"
       THEN IF successes + 1 >= success_threshold
            THEN /\ state' = "CLOSED"
                 /\ successes' = 0
                 /\ UNCHANGED failures
            ELSE /\ successes' = successes + 1
                 /\ UNCHANGED <<state, failures>>
       ELSE /\ failures' = 0
            /\ UNCHANGED <<state, successes>>
    /\ UNCHANGED last_failure_time

\* _on_success, lines 83-93
OnSuccess ==
    /\ IF state = "HALF_OPEN"
       THEN IF successes + 1 >= success_threshold
            THEN /\ state' = "CLOSED"
                 /\ failures' = 0
                 /\ successes' = 0
            ELSE /\ successes' = successes + 1
                 /\ UNCHANGED <<state, failures>>
       ELSE /\ failures' = 0
            /\ UNCHANGED <<state, successes>>
    /\ UNCHANGED last_failure_time

\* OnFailure with > for >=: the breaker opens one failure late
OnFailureLate ==
    /\ failures' = failures + 1
    /\ last_failure_time' = now
    /\ IF failures + 1 > failure_threshold
       THEN /\ state' = "OPEN"
            /\ successes' = 0
       ELSE UNCHANGED <<state, successes>>

\* _on_failure, lines 95-103
OnFailure ==
    /\ failures' = failures + 1
    /\ last_failure_time' = now
    /\ IF failures + 1 >= failure_threshold
       THEN /\ state' = "OPEN"
            /\ successes' = 0
       ELSE UNCHANGED <<state, successes>>

\* call, lines 76-78: the wrapped function returned; _on_success, return
Returned(c) ==
    /\ OnSuccess
    /\ pc' = [pc EXCEPT ![c] = "returned"]
    /\ streak' = 0
    /\ halfOpenStreak' = IF state = "HALF_OPEN" THEN halfOpenStreak + 1
                         ELSE halfOpenStreak
    /\ UNCHANGED <<failure_threshold, timeout, success_threshold, admitted, now>>

\* call, lines 79-81: the wrapped function raised; _on_failure, re-raise
Raised(c) ==
    /\ OnFailure
    /\ pc' = [pc EXCEPT ![c] = "raised"]
    /\ streak' = streak + 1
    /\ halfOpenStreak' = 0
    /\ UNCHANGED <<failure_threshold, timeout, success_threshold, admitted, now>>

\* call has returned or raised: the caller has the outcome and may call again
Leave(c) ==
    /\ pc[c] \in {"open_error", "returned", "raised"}
    /\ pc' = [pc EXCEPT ![c] = "idle"]
    /\ admitted' = [admitted EXCEPT ![c] = "none"]
    /\ UNCHANGED <<failure_threshold, timeout, success_threshold, state,
                   failures, successes, last_failure_time, streak,
                   halfOpenStreak, now>>

\* time passes while every task is where it is
TimePasses ==
    /\ Tick
    /\ UNCHANGED <<breakerVars, fetchVars, outsideBreaker>>

\* await circuit.call(func): the caller enters call
Call(c) ==
    /\ Enter(c)
    /\ UNCHANGED <<fetchVars, outsideBreaker>>

\* an arbitrary wrapped function: it returns
FuncReturns(c) ==
    /\ pc[c] = "running"
    /\ Returned(c)
    /\ UNCHANGED <<fetchVars, outsideBreaker>>

\* an arbitrary wrapped function: it raises
FuncRaises(c) ==
    /\ pc[c] = "running"
    /\ Raised(c)
    /\ UNCHANGED <<fetchVars, outsideBreaker>>

\* the caller of call goes on
CallDone(c) ==
    /\ Leave(c)
    /\ UNCHANGED <<fetchVars, outsideBreaker>>

\* time passes for ever: past MaxTime ticks the origin of the clock moves
\* instead of `now` (only now - last_failure_time is ever looked at, line
\* 69, and a last failure older than the timeout stays older)
TimePassesLive ==
    /\ IF now < MaxTime
       THEN /\ now' = now + 1
            /\ UNCHANGED last_failure_time
       ELSE /\ now' = now
            /\ last_failure_time' =
                   IF /\ last_failure_time # None
                      /\ now - last_failure_time <= timeout
                   THEN last_failure_time - 1
                   ELSE last_failure_time
    /\ UNCHANGED <<failure_threshold, timeout, success_threshold, state,
                   failures, successes, pc, admitted, streak,
                   halfOpenStreak>>
    /\ UNCHANGED <<fetchVars, outsideBreaker>>

\* the wrapped function raises, while fewer than MaxLiveFailures failures
\* are counted
FuncRaisesLive(c) ==
    /\ failures < MaxLiveFailures
    /\ FuncRaises(c)

\* the breaker's steps over unbounded time
BreakerLiveNext ==
    \/ TimePassesLive
    \/ \E c \in Callers : Call(c)
    \/ \E c \in Callers : FuncReturns(c)
    \/ \E c \in Callers : FuncRaisesLive(c)
    \/ \E c \in Callers : CallDone(c)

BreakerNext(C) ==
    \/ TimePasses
    \/ \E c \in C : Call(c)
    \/ \E c \in C : FuncReturns(c)
    \/ \E c \in C : FuncRaises(c)
    \/ \E c \in C : CallDone(c)

---------------------------------------------------------------------------
(* WikimediaRetriever.search through the breaker *)

\* _fetch_with_maxlag(url, max_retries = 3)
max_retries == 3

\* what one HTTP GET of _fetch_with_maxlag ends in: a 200 whose JSON
\* _parse_response accepts, a 200 it rejects (or empty JSON), a 503 whose
\* Retry-After is absent or a number of seconds, a 503 whose Retry-After is
\* an HTTP date (int() of line 300 raises ValueError), another 5xx, a 4xx,
\* or httpx.TimeoutException
Responses == {"200", "200_unusable", "503", "503_http_date", "500", "404",
              "timeout"}

FetchInit ==
    /\ attempt = [c \in Callers |-> 0]
    /\ onlyTimeouts = [c \in Callers |-> FALSE]
    /\ result = [c \in Callers |-> "none"]

\* search, lines 405-413: circuit_breaker.call(self._fetch_with_maxlag, url);
\* CircuitBreakerOpenError is caught and search returns None
Search(c) ==
    /\ Enter(c)
    /\ attempt' = [attempt EXCEPT ![c] = 0]
    /\ onlyTimeouts' = [onlyTimeouts EXCEPT ![c] = TRUE]
    /\ result' = [result EXCEPT ![c] =
                    IF Admission = "reject" THEN "None" ELSE "pending"]
    /\ UNCHANGED outsideBreaker

\* Retries that goes on after a 5xx at the last attempt too
RetriesEveryServerError(r, a) == r \in {"503", "timeout", "500"}

\* _fetch_with_maxlag, lines 296-322: `continue` after a 503, a timeout, or
\* a 5xx before the last attempt
Retries(r, a) ==
    \/ r \in {"503", "timeout"}
    \/ r = "500" /\ a < max_retries - 1

\* one pass of the loop of _fetch_with_maxlag, and on its return or raise
\* the rest of call and of search (lines 408-416)
FetchAttempt(c, r) ==
    /\ pc[c] = "running"
    /\ attempt[c] < max_retries
    /\ onlyTimeouts' = [onlyTimeouts EXCEPT ![c] = @ /\ r = "timeout"]
    /\ UNCHANGED outsideBreaker
    /\ IF Retries(r, attempt[c])
       THEN /\ attempt' = [attempt EXCEPT ![c] = @ + 1]
            /\ UNCHANGED <<breakerVars, now, result>>
       ELSE /\ UNCHANGED attempt
            /\ IF r \in {"200", "200_unusable"}
               THEN /\ Returned(c)
                    /\ result' = [result EXCEPT ![c] =
                                    IF r = "200" THEN "record" ELSE "None"]
               ELSE /\ Raised(c)
                    /\ result' = [result EXCEPT ![c] = "None"]

\* _fetch_with_maxlag, line 324: the loop ran out, return None; call takes
\* the return as a success, and search returns None (line 410)
FetchExhausted(c) ==
    /\ pc[c] = "running"
    /\ attempt[c] = max_retries
    /\ Returned(c)
    /\ result' = [result EXCEPT ![c] = "None"]
    /\ UNCHANGED <<attempt, onlyTimeouts, outsideBreaker>>

\* search has returned to its caller
SearchDone(c) ==
    /\ Leave(c)
    /\ result' = [result EXCEPT ![c] = "none"]
    /\ UNCHANGED <<attempt, onlyTimeouts, outsideBreaker>>

FetchNext ==
    \/ TimePasses
    \/ \E c \in Callers : Search(c)
    \/ \E c \in Callers, r \in Responses : FetchAttempt(c, r)
    \/ \E c \in Callers : FetchExhausted(c)
    \/ \E c \in Callers : SearchDone(c)

---------------------------------------------------------------------------
(* RateLimiter *)

(* Time in the limiter's specifications is counted in ticks of            *)
(* 1 / (rate * TokenParts) seconds and tokens in TokenParts-ths of a       *)
(* token, so that elapsed * rate tokens (line 120) is `elapsed` parts and  *)
(* the sleep of (1.0 - tokens) / rate seconds (line 124) is                *)
(* TokenParts - tokens ticks.                                              *)

Min(a, b) == IF a <= b THEN a ELSE b

\* RateLimiter.__init__(calls_per_second = r), constructed at time 0
LimiterFresh(r) ==
    /\ rate = r
    /\ tokens = r * TokenParts
    /\ last_update = 0
    /\ holder = "free"
    /\ waiters = <<>>
    /\ lpc = [c \in Callers |-> "idle"]
    /\ wake = [c \in Callers |-> 0]
    /\ entered = 0
    /\ acquired = 0
    /\ first_entry = None

LimiterInit == \E r \in 1..MaxRate : LimiterFresh(r)

\* WikimediaRetriever.__init__(rate_limit = 1.0), line 223
DefaultRateLimit == 1

RetrieverLimiterInit == LimiterFresh(DefaultRateLimit)

\* acquire, lines 118-120: min(self.rate, self.tokens + elapsed * self.rate)
Refilled == Min(rate * TokenParts, tokens + (now - last_update))

\* acquire, lines 118-128 up to the sleep, run by c as it gets the lock:
\* refill, then take a token and return, or go to sleep holding the lock
TakeOrSleep(c) ==
    /\ last_update' = now
    /\ IF Refilled < TokenParts
       THEN /\ tokens' = Refilled
            /\ holder' = c
            /\ lpc' = [lpc EXCEPT ![c] = "sleeping"]
            /\ wake' = [wake EXCEPT ![c] = now + (TokenParts - Refilled)]
            /\ UNCHANGED acquired
       ELSE /\ tokens' = Refilled - TokenParts
            /\ holder' = "free"
            /\ lpc' = [lpc EXCEPT ![c] = "idle"]
            /\ acquired' = acquired + 1
            /\ UNCHANGED wake

\* a call of acquire begins
Begins ==
    /\ entered < MaxAcquires
    /\ entered' = entered + 1
    /\ first_entry' = IF first_entry = None THEN now ELSE first_entry

\* acquire, line 117, with the lock free and nobody queued: no suspension
AcquireFree(c) ==
    /\ lpc[c] = "idle"
    /\ holder = "free" /\ waiters = <<>>
    /\ Begins
    /\ TakeOrSleep(c)
    /\ UNCHANGED <<rate, waiters, now, outsideLimiter>>

\* acquire, line 117, with the lock held or promised: the task queues
AcquireQueued(c) ==
    /\ lpc[c] = "idle"
    /\ ~(holder = "free" /\ waiters = <<>>)
    /\ Begins
    /\ lpc' = [lpc EXCEPT ![c] = "waiting"]
    /\ waiters' = Append(waiters, c)
    /\ UNCHANGED <<rate, tokens, last_update, holder, wake, acquired, now,
                   outsideLimiter>>

\* the released lock goes to the first task queued, which runs lines 118-128
LockGranted(c) ==
    /\ holder = "free"
    /\ waiters # <<>> /\ Head(waiters) = c
    /\ waiters' = Tail(waiters)
    /\ TakeOrSleep(c)
    /\ UNCHANGED <<rate, entered, first_entry, now, outsideLimiter>>

\* acquire, lines 125-126: asyncio.sleep(wait_time) is over; tokens = 0.0,
\* the lock is released and acquire returns
Wake(c) ==
    /\ lpc[c] = "sleeping"
    /\ now >= wake[c]
    /\ tokens' = 0
    /\ holder' = "free"
    /\ lpc' = [lpc EXCEPT ![c] = "idle"]
    /\ acquired' = acquired + 1
    /\ UNCHANGED <<rate, last_update, waiters, wake, entered, first_entry,
                   now, outsideLimiter>>

\* time passes, to the limiter's horizon
LimiterTimePasses ==
    /\ now < MaxLimiterTime
    /\ now' = now + 1
    /\ UNCHANGED <<limiterVars, outsideLimiter>>

\* tasks calling acquire concurrently
LimiterNext ==
    \/ LimiterTimePasses
    \/ \E c \in Callers : AcquireFree(c)
    \/ \E c \in Callers : AcquireQueued(c)
    \/ \E c \in Callers : LockGranted(c)
    \/ \E c \in Callers : Wake(c)

\* one task calling acquire again and again: the lock is always free
LimiterSeqNext ==
    \/ LimiterTimePasses
    \/ \E c \in SeqCallers : AcquireFree(c)
    \/ \E c \in SeqCallers : Wake(c)

---------------------------------------------------------------------------
(* TTLCache *)

\* TTLCache.__init__, lines 22-26
CacheFresh(m, t) ==
    /\ max_size = m
    /\ ttl = t
    /\ cache = <<>>
    /\ hits = 0
    /\ misses = 0
    /\ ret = [op |-> "init", key |-> "-", val |-> "None"]

CacheInit == \E m \in 1..MaxSize, t \in 0..MaxTTL : CacheFresh(m, t)

\* wikimedia_cache = TTLCache(): max_size 500, ttl_seconds 86400
DefaultMaxSize == 500
DefaultTTL == 86400

ModuleCacheInit == CacheFresh(DefaultMaxSize, DefaultTTL)

\* the keys of _cache
CachedKeys == {cache[i].key : i \in 1..Len(cache)}

\* self._cache[key], for a key that is in _cache
Entry(k) == cache[CHOOSE i \in 1..Len(cache) : cache[i].key = k]

\* del self._cache[key] / self._cache.pop(key, None): the other entries keep
\* their order
Without(entries, k) == SelectSeq(entries, LAMBDA e : e.key # k)

\* self._cache[k] = (t, v): an entry of a key that is present is replaced
\* where it is, a new key's entry goes to the end
With(entries, k, v, t) ==
    LET e == [key |-> k, ts |-> t, value |-> v]
    IN  IF \E i \in 1..Len(entries) : entries[i].key = k
        THEN [i \in 1..Len(entries) |->
                 IF entries[i].key = k THEN e ELSE entries[i]]
        ELSE Append(entries, e)

\* Expired that lets an entry live one tick longer than its ttl
ExpiredLate(ts) == now - ts > ttl + 1

\* get, line 42: datetime.now() - timestamp > self.ttl
Expired(ts) == now - ts > ttl

\* OldestKey with max for min: the entry inserted last
NewestKey ==
    LET most == CHOOSE i \in 1..Len(cache) :
                    \A j \in 1..Len(cache) : cache[i].ts >= cache[j].ts
    IN  cache[most].key

\* set, line 59: min(self._cache.items(), key=lambda x: x[1][0])[0], the
\* first entry in dict order among those with the least timestamp
OldestKey ==
    LET least == CHOOSE i \in 1..Len(cache) :
                    /\ \A j \in 1..Len(cache) : cache[i].ts <= cache[j].ts
                    /\ \A j \in 1..(i - 1) : cache[j].ts > cache[i].ts
    IN  cache[least].key

\* set, line 58: len(self._cache) >= self.max_size
AtCapacity == Len(cache) >= max_size

\* get, lines 37-48
Get(k) ==
    /\ hits + misses < MaxGets
    /\ IF k \notin CachedKeys
       THEN /\ misses' = misses + 1
            /\ ret' = [op |-> "get", key |-> k, val |-> "None"]
            /\ UNCHANGED <<cache, hits>>
       ELSE IF Expired(Entry(k).ts)
            THEN /\ cache' = Without(cache, k)
                 /\ misses' = misses + 1
                 /\ ret' = [op |-> "get", key |-> k, val |-> "None"]
                 /\ UNCHANGED hits
            ELSE /\ hits' = hits + 1
                 /\ ret' = [op |-> "get", key |-> k, val |-> Entry(k).value]
                 /\ UNCHANGED <<cache, misses>>
    /\ UNCHANGED <<max_size, ttl, now, outsideCache>>

\* set, lines 57-63
Set(k, v) ==
    /\ cache' = With(IF AtCapacity THEN Without(cache, OldestKey) ELSE cache,
                     k, v, now)
    /\ ret' = [op |-> "set", key |-> k, val |-> "None"]
    /\ UNCHANGED <<max_size, ttl, hits, misses, now, outsideCache>>

\* invalidate, line 71
Invalidate(k) ==
    /\ cache' = Without(cache, k)
    /\ ret' = [op |-> "invalidate", key |-> k, val |-> "None"]
    /\ UNCHANGED <<max_size, ttl, hits, misses, now, outsideCache>>

\* clear, lines 75-77
Clear ==
    /\ cache' = <<>>
    /\ hits' = 0
    /\ misses' = 0
    /\ ret' = [op |-> "clear", key |-> "-", val |-> "None"]
    /\ UNCHANGED <<max_size, ttl, now, outsideCache>>

RECURSIVE Gcd(_, _)
Gcd(a, b) == IF b = 0 THEN a ELSE Gcd(b, a % b)

\* the float n / d of two small naturals, d > 0, as the fraction in lowest
\* terms: two such quotients are the same float exactly when they are the
\* same fraction
Quotient(n, d) == <<n \div Gcd(n, d), d \div Gcd(n, d)>>

\* HitRatio as hits per miss
HitsPerMiss ==
    IF misses > 0 THEN Quotient(hits, misses) ELSE <<0, 1>>

\* stats, line 87: self._hits / total if total > 0 else 0.0
HitRatio ==
    IF hits + misses > 0 THEN Quotient(hits, hits + misses) ELSE <<0, 1>>

\* stats, lines 86-96
Stats ==
    /\ ret' = [op |-> "stats", key |-> "-",
               val |-> [hits |-> hits, misses |-> misses,
                        total_requests |-> hits + misses,
                        hit_ratio |-> HitRatio,
                        size |-> Len(cache), max_size |-> max_size]]
    /\ UNCHANGED <<max_size, ttl, cache, hits, misses, now, outsideCache>>

\* time passes, to the cache's horizon
CacheTimePasses ==
    /\ now < MaxCacheTime
    /\ now' = now + 1
    /\ ret' = [op |-> "tick", key |-> "-", val |-> "None"]
    /\ UNCHANGED <<max_size, ttl, cache, hits, misses, outsideCache>>

CacheNext ==
    \/ CacheTimePasses
    \/ \E k \in Keys : Get(k)
    \/ \E k \in Keys, v \in Values : Set(k, v)
    \/ \E k \in Keys : Invalidate(k)
    \/ Clear
    \/ Stats

---------------------------------------------------------------------------
(* Strings *)

(* A Python str is the sequence of its characters, each a one-character    *)
(* string.                                                                 *)

\* string.ascii_uppercase and string.ascii_lowercase, letter by letter
UpperCase == <<"A", "B", "C", "D", "E", "F", "G", "H", "I", "J", "K", "L",
               "M", "N", "O", "P", "Q", "R", "S", "T", "U", "V", "W", "X",
               "Y", "Z">>
LowerCase == <<"a", "b", "c", "d", "e", "f", "g", "h", "i", "j", "k", "l",
               "m", "n", "o", "p", "q", "r", "s", "t", "u", "v", "w", "x",
               "y", "z">>

\* the characters str.split() and str.strip() take for whitespace
Whitespace == {" ", "\t", "\n"}

\* ch.isupper(), for one character
IsUpper(ch) == \E i \in 1..Len(UpperCase) : UpperCase[i] = ch

\* ch.lower(), for one character
LowerChar(ch) ==
    IF IsUpper(ch)
    THEN LowerCase[CHOOSE i \in 1..Len(UpperCase) : UpperCase[i] = ch]
    ELSE ch

\* s.lower()
Lower(s) == [i \in 1..Len(s) |-> LowerChar(s[i])]

\* s.startswith(prefix)
StartsWith(s, prefix) ==
    /\ Len(s) >= Len(prefix)
    /\ SubSeq(s, 1, Len(prefix)) = prefix

\* s.lstrip()
RECURSIVE LStrip(_)
LStrip(s) ==
    IF s # <<>> /\ Head(s) \in Whitespace THEN LStrip(Tail(s)) ELSE s

\* s.rstrip()
RECURSIVE RStrip(_)
RStrip(s) ==
    IF s # <<>> /\ s[Len(s)] \in Whitespace
    THEN RStrip(SubSeq(s, 1, Len(s) - 1))
    ELSE s

\* s.strip()
Strip(s) == RStrip(LStrip(s))

\* the length of the run of non-whitespace characters that s begins with
RECURSIVE WordEnd(_)
WordEnd(s) ==
    IF s = <<>> \/ Head(s) \in Whitespace THEN 0 ELSE 1 + WordEnd(Tail(s))

\* s.split(): the maximal runs of non-whitespace characters, in order
RECURSIVE Split(_)
Split(s) ==
    IF s = <<>> THEN <<>>
    ELSE IF Head(s) \in Whitespace THEN Split(Tail(s))
    ELSE <<SubSeq(s, 1, WordEnd(s))>>
             \o Split(SubSeq(s, WordEnd(s) + 1, Len(s)))

\* sep.join(words)
RECURSIVE Join(_, _)
Join(sep, words) ==
    IF words = <<>> THEN <<>>
    ELSE IF Len(words) = 1 THEN words[1]
    ELSE words[1] \o sep \o Join(sep, Tail(words))

\* s.rsplit(' ', 1)[0]: what comes before the last space, or all of s
RSplitHead(s) ==
    IF \E i \in 1..Len(s) : s[i] = " "
    THEN LET last == CHOOSE i \in 1..Len(s) :
                         /\ s[i] = " "
                         /\ \A j \in (i + 1)..Len(s) : s[j] # " "
         IN  SubSeq(s, 1, last - 1)
    ELSE s

\* re.sub(r'\[\[|\]\]|\{\{|\}\}', '', s): the pairs are taken from the left
RECURSIVE RemoveMarkup(_)
RemoveMarkup(s) ==
    IF Len(s) < 2 THEN s
    ELSE IF s[1] = s[2] /\ s[1] \in {"[", "]", "{", "}"}
    THEN RemoveMarkup(SubSeq(s, 3, Len(s)))
    ELSE <<s[1]>> \o RemoveMarkup(Tail(s))

\* re.sub(r'[<>"\']', '', s)
RemoveDangerous(s) == SelectSeq(s, LAMBDA ch : ch \notin {"<", ">", "\"", "'"})

\* sanitize_search_term, line 150: the API takes about 300 characters
MaxTermLength == 300

\* sanitize_search_term, lines 140-153
sanitize_search_term(q) ==
    LET collapsed == Join(<<" ">>, Split(RemoveDangerous(RemoveMarkup(q))))
    IN  Strip(IF Len(collapsed) > MaxTermLength
              THEN RSplitHead(SubSeq(collapsed, 1, MaxTermLength))
              ELSE collapsed)

\* cache_key, lines 110-111: the digest of "query:en:" and the lowercased,
\* stripped query. Distinct payloads are given distinct digests, so the
\* payload's variable part stands for the digest.
cache_key(q) == Strip(Lower(q))

---------------------------------------------------------------------------
(* WikimediaRetriever.__init__ *)

(* A User-Agent is None or a string; a string is given by its words, which *)
(* single spaces join.                                                     *)

\* the words of the User-Agent strings of config.py:37-40 and of
\* test_user_agent_validation
UAWords == {"StudyTutorRAG/2.0", "(https://example.com;", "test@example.com)",
            "(https://example.com)", "short",
            "(https://github.com/user/StudyTutor;", "studytutor@example.com)"}

\* len(word)
WordLength(w) ==
    CASE w = "StudyTutorRAG/2.0" -> 17
      [] w = "(https://example.com;" -> 21
      [] w = "test@example.com)" -> 17
      [] w = "(https://example.com)" -> 21
      [] w = "short" -> 5
      [] w = "(https://github.com/user/StudyTutor;" -> 36
      [] w = "studytutor@example.com)" -> 23

\* "@" in word
HasAt(w) == w \in {"test@example.com)", "studytutor@example.com)"}

\* user_agent = None
NoUserAgent == [given |-> FALSE, words |-> <<>>]

\* user_agent = " ".join(words)
UserAgent(words) == [given |-> TRUE, words |-> words]

\* the User-Agent strings of at most n words
UserAgentsUpTo(n) ==
    {NoUserAgent} \cup
    UNION {{UserAgent(ws) : ws \in [1..m -> UAWords]} : m \in 0..n}

\* len(user_agent), for a string
RECURSIVE WordsLength(_)
WordsLength(ws) ==
    IF ws = <<>> THEN 0
    ELSE WordLength(Head(ws)) + WordsLength(Tail(ws))
UALength(ua) ==
    IF ua.words = <<>> THEN 0
    ELSE WordsLength(ua.words) + Len(ua.words) - 1

\* config.py:37-40, the default of WIKIMEDIA_USER_AGENT
DefaultUserAgent ==
    UserAgent(<<"StudyTutorRAG/2.0", "(https://github.com/user/StudyTutor;",
                "studytutor@example.com)">>)

\* __init__, line 214: len(user_agent) < 20
MinUserAgentLength == 20

\* __init__, line 214: not user_agent or len(user_agent) < 20
\*                     or "@" not in user_agent
UserAgentRejected(ua) ==
    \/ ~ua.given
    \/ ua.words = <<>>
    \/ UALength(ua) < MinUserAgentLength
    \/ ~\E i \in 1..Len(ua.words) : HasAt(ua.words[i])

\* __init__, lines 203-223: the exception it raises, or "retriever" when
\* the client slot, the breaker and the limiter have been created
Construct(installed, ua) ==
    IF ~installed THEN "ImportError"
    ELSE IF UserAgentRejected(ua) THEN "ValueError"
    ELSE "retriever"

---------------------------------------------------------------------------
(* search_wikipedia_cached -> WikimediaRetriever.search *)

(* A call ends in a value ("record", "None") or in an exception, named by   *)
(* its class. A try statement is an operator from what its body ended in   *)
(* to what the statement ends in.                                          *)

\* the classes of the exceptions the stages raise that derive from
\* Exception: ImportError and ValueError (__init__, lines 203-218; the
\* HTTP/2 client of line 227 without its package), CircuitBreakerOpenError
\* (line 73), RuntimeError (line 292), httpx.HTTPStatusError (line 310),
\* json.JSONDecodeError (line 311), AttributeError (_parse_response on JSON
\* of another shape), TypeError (retrieval.py:160, len(metas))
ExceptionClasses == {"ImportError", "ValueError", "CircuitBreakerOpenError",
                     "RuntimeError", "HTTPStatusError", "JSONDecodeError",
                     "AttributeError", "TypeError"}

\* the queries of the pipeline's specification: "Go", "go " (the same
\* cache key), "pi", and "<>" (empty once sanitized)
PipelineQueries == {<<"G", "o">>, <<"g", "o", " ">>, <<"p", "i">>,
                    <<"<", ">">>}

\* what one HTTP GET ends in: as Responses, and a 200 whose body is not
\* JSON, and a 200 whose JSON has another shape than the API's
PipelineResponses == Responses \cup {"200_not_json", "200_wrong_shape"}

\* _fetch_with_maxlag, lines 308-322, on a response that ends the loop:
\* resp.json() is returned, or raise_for_status() or resp.json() raises
FetchEnds(r) ==
    CASE r \in {"200", "200_unusable", "200_wrong_shape"} -> "data"
      [] r = "200_not_json" -> "JSONDecodeError"
      [] r \in {"500", "404"} -> "HTTPStatusError"
      [] r = "503_http_date" -> "ValueError"

\* search, lines 407-409 with _parse_response, lines 335-374: empty data,
\* no page, a missing page or a short extract give None
ParseResponse(r) ==
    CASE r = "200" -> "record"
      [] r = "200_unusable" -> "None"
      [] r = "200_wrong_shape" -> "AttributeError"

\* search, lines 406-416: try ... except CircuitBreakerOpenError: return
\* None; except Exception: return None
SearchTry(o) ==
    IF o = "CircuitBreakerOpenError" THEN "None"
    ELSE IF o \in ExceptionClasses THEN "None"
    ELSE o

\* search_wikipedia_cached, lines 87-106: try ... except Exception: return
\* None, around the construction of the retriever
ConstructTry(o) == IF o \in ExceptionClasses THEN "None" ELSE o

\* CachedTry without its handler
CachedTryBare(o) == o

\* search_wikipedia_cached, lines 109-121: try ... except Exception: return
\* None, around `async with` and search
CachedTry(o) == IF o \in ExceptionClasses THEN "None" ELSE o

\* the module as imported with a given configuration and environment
PipelineFresh(enabled, ua, installed) ==
    /\ WIKIMEDIA_ENABLED = enabled
    /\ WIKIMEDIA_USER_AGENT = ua
    /\ httpx_installed = installed
    /\ wikimedia_retriever = "None"
    /\ client = "None"
    /\ stage = [c \in Callers |-> "idle"]
    /\ query = [c \in Callers |-> <<>>]
    /\ outcome = [c \in Callers |-> "none"]

\* the User-Agent is the default or the environment's "short"
PipelineInit ==
    \E enabled \in BOOLEAN, installed \in BOOLEAN,
       ua \in {DefaultUserAgent, UserAgent(<<"short">>)} :
        PipelineFresh(enabled, ua, installed)

\* config.py:25, 37-40: the defaults, with httpx installed
ModulePipelineInit == PipelineFresh(TRUE, DefaultUserAgent, TRUE)

\* acquire, lines 118-120, with the clock in seconds: a second refills
\* `rate` tokens
RefilledOver == Min(rate * TokenParts,
                    tokens + (now - last_update) * rate * TokenParts)

\* search, line 386: rate_limiter.acquire() by the one task that is in
\* search, the lock free. It takes a token, or sleeps for what is missing
\* of one (at most 1 / rate seconds, which the clock does not count) and
\* leaves none. The histories of the limiter's own specifications are not
\* kept here.
AcquireAlone ==
    /\ last_update' = now
    /\ tokens' = IF RefilledOver < TokenParts THEN 0
                 ELSE RefilledOver - TokenParts
    /\ UNCHANGED <<rate, holder, waiters, lpc, wake, entered, acquired,
                   first_entry>>

\* search_wikipedia_cached returns o to its caller, or o escapes
Give(c, o) ==
    /\ stage' = [stage EXCEPT ![c] = "done"]
    /\ outcome' = [outcome EXCEPT ![c] = o]

\* search_wikipedia_cached(q), lines 73-112, and search, lines 386-408, up
\* to the first request of _fetch_with_maxlag. `opens` tells whether
\* httpx.AsyncClient(http2=True, ...) of __aenter__ can be created.
\* _build_url("query", ...) takes an allowed action; the client __aenter__
\* has just made is there at line 291.
CachedSearch(c, q, opens) ==
    /\ stage[c] = "idle"
    /\ hits + misses < MaxLookups
    /\ query' = [query EXCEPT ![c] = q]
    /\ UNCHANGED <<WIKIMEDIA_ENABLED, WIKIMEDIA_USER_AGENT, httpx_installed,
                   max_size, ttl, onlyTimeouts, result>>
    /\ LET k == cache_key(q)
           hit == k \in CachedKeys /\ ~Expired(Entry(k).ts)
           built == IF wikimedia_retriever = "None"
                    THEN Construct(httpx_installed, WIKIMEDIA_USER_AGENT)
                    ELSE "retriever"
       IN  IF ~WIKIMEDIA_ENABLED
           THEN /\ Give(c, "None")
                /\ UNCHANGED <<cache, hits, misses, ret, wikimedia_retriever,
                               client, attempt, breakerVars, now,
                               limiterVars>>
           ELSE IF hit
           THEN /\ hits' = hits + 1
                /\ ret' = [op |-> "get", key |-> k, val |-> Entry(k).value]
                /\ Give(c, Entry(k).value)
                /\ UNCHANGED <<cache, misses, wikimedia_retriever, client,
                               attempt, breakerVars, now, limiterVars>>
           ELSE /\ misses' = misses + 1
                /\ cache' = Without(cache, k)
                /\ ret' = [op |-> "get", key |-> k, val |-> "None"]
                /\ UNCHANGED hits
                /\ IF built # "retriever"
                   THEN /\ Give(c, ConstructTry(built))
                        /\ UNCHANGED <<wikimedia_retriever, client, attempt,
                                       breakerVars, now, limiterVars>>
                   ELSE /\ wikimedia_retriever' = "retriever"
                        /\ IF ~opens
                           THEN /\ Give(c, CachedTry("ImportError"))
                                /\ UNCHANGED <<client, attempt, breakerVars,
                                               now, limiterVars>>
                           ELSE IF sanitize_search_term(q) = <<>>
                           THEN /\ AcquireAlone
                                /\ client' = "closed"
                                /\ Give(c, CachedTry("None"))
                                /\ UNCHANGED <<attempt, breakerVars, now>>
                           ELSE /\ AcquireAlone
                                /\ Enter(c)
                                /\ attempt' = [attempt EXCEPT ![c] = 0]
                                /\ IF Admission = "reject"
                                   THEN /\ client' = "closed"
                                        /\ Give(c, CachedTry(SearchTry(
                                               "CircuitBreakerOpenError")))
                                   ELSE /\ client' = "open"
                                        /\ stage' = [stage EXCEPT
                                                       ![c] = "fetching"]
                                        /\ UNCHANGED outcome

\* Truthy that takes None for a result too
NotAnException(found) == found \notin ExceptionClasses

\* search_wikipedia_cached, line 114: `if result:`, of what search returned
Truthy(found) == found = "record"

\* one pass of the loop of _fetch_with_maxlag, and on its return or raise
\* the rest of call (lines 76-81), of search (lines 407-416) and of
\* search_wikipedia_cached (lines 112-121, with __aexit__)
PipelineFetch(c, r) ==
    /\ stage[c] = "fetching"
    /\ attempt[c] < max_retries
    /\ UNCHANGED <<WIKIMEDIA_ENABLED, WIKIMEDIA_USER_AGENT, httpx_installed,
                   wikimedia_retriever, query, max_size, ttl, hits, misses,
                   onlyTimeouts, result, limiterVars>>
    /\ IF Retries(r, attempt[c])
       THEN /\ attempt' = [attempt EXCEPT ![c] = @ + 1]
            /\ UNCHANGED <<breakerVars, now, cache, ret, client, stage,
                           outcome>>
       ELSE LET ended == FetchEnds(r)
                found == SearchTry(IF ended = "data" THEN ParseResponse(r)
                                   ELSE ended)
            IN  /\ IF ended = "data" THEN Returned(c) ELSE Raised(c)
                /\ IF Truthy(found)
                   THEN /\ cache' = With(IF AtCapacity
                                         THEN Without(cache, OldestKey)
                                         ELSE cache,
                                         cache_key(query[c]), found, now)
                        /\ ret' = [op |-> "set", key |-> cache_key(query[c]),
                                   val |-> "None"]
                   ELSE UNCHANGED <<cache, ret>>
                /\ client' = "closed"
                /\ Give(c, CachedTry(found))
                /\ UNCHANGED attempt

\* _fetch_with_maxlag, line 324: the loop ran out, return None; call takes
\* the return as a success, search returns None (line 410) and so does
\* search_wikipedia_cached
PipelineExhausted(c) ==
    /\ stage[c] = "fetching"
    /\ attempt[c] = max_retries
    /\ Returned(c)
    /\ client' = "closed"
    /\ Give(c, CachedTry(SearchTry("None")))
    /\ UNCHANGED <<WIKIMEDIA_ENABLED, WIKIMEDIA_USER_AGENT, httpx_installed,
                   wikimedia_retriever, query, cacheVars, fetchVars,
                   limiterVars>>

\* the caller of search_wikipedia_cached goes on with what it was given
CachedDone(c) ==
    /\ stage[c] = "done"
    /\ stage' = [stage EXCEPT ![c] = "idle"]
    /\ outcome' = [outcome EXCEPT ![c] = "none"]
    /\ IF pc[c] = "idle" THEN UNCHANGED <<breakerVars, now>> ELSE Leave(c)
    /\ UNCHANGED <<WIKIMEDIA_ENABLED, WIKIMEDIA_USER_AGENT, httpx_installed,
                   wikimedia_retriever, client, query, cacheVars, fetchVars,
                   limiterVars>>

PipelineNext ==
    \/ TimePasses
    \/ \E c \in SeqCallers, q \in PipelineQueries, opens \in BOOLEAN :
           CachedSearch(c, q, opens)
               /\ UNCHANGED <<hybridVars, outsideOrchestration>>
    \/ \E c \in SeqCallers, r \in PipelineResponses :
           PipelineFetch(c, r)
               /\ UNCHANGED <<hybridVars, outsideOrchestration>>
    \/ \E c \in SeqCallers :
           PipelineExhausted(c)
               /\ UNCHANGED <<hybridVars, outsideOrchestration>>
    \/ \E c \in SeqCallers :
           CachedDone(c) /\ UNCHANGED <<hybridVars, outsideOrchestration>>

---------------------------------------------------------------------------
(* should_query_wikimedia and hybrid_retrieve *)

\* should_query_wikimedia, lines 38-45
triggers == << <<"w", "h", "a", "t", " ", "i", "s">>,
               <<"w", "h", "o", " ", "i", "s">>,
               <<"d", "e", "f", "i", "n", "e">>,
               <<"e", "x", "p", "l", "a", "i", "n">>,
               <<"d", "e", "s", "c", "r", "i", "b", "e">>,
               <<"t", "e", "l", "l", " ", "m", "e", " ", "a", "b", "o", "u",
                 "t">> >>

\* capitalized that counts one-letter words too
capitalizedAnyLength(q) ==
    LET words == Split(q)
    IN  Cardinality({i \in 1..Len(words) : IsUpper(words[i][1])})

\* should_query_wikimedia, lines 55-56:
\* sum(1 for w in words if len(w) > 1 and w[0].isupper())
capitalized(q) ==
    LET words == Split(q)
    IN  Cardinality({i \in 1..Len(words) :
                        Len(words[i]) > 1 /\ IsUpper(words[i][1])})

\* should_query_wikimedia, lines 32-59
should_query_wikimedia(q) ==
    IF ~WIKIMEDIA_ENABLED THEN FALSE
    ELSE IF \E i \in 1..Len(triggers) : StartsWith(Lower(q), triggers[i])
    THEN TRUE
    ELSE capitalized(q) >= 2

\* the queries of hybrid_retrieve's specification: "Go Pi" (two
\* capitalized words), "go pi", "define pi" (a trigger phrase)
HybridQueries == {<<"G", "o", " ", "P", "i">>, <<"g", "o", " ", "p", "i">>,
                  <<"d", "e", "f", "i", "n", "e", " ", "p", "i">>}

\* what the thread running retrieve ends in: hits, no hit, or an exception
\* (retrieval.py:160, len(metas), is outside the try of _vector_search)
LocalOutcomes == {"hits", "[]", "TypeError"}

\* hybrid_retrieve is not being called
HybridIdle ==
    /\ hstage = [c \in Callers |-> "idle"]
    /\ hquery = [c \in Callers |-> <<>>]
    /\ local_task = [c \in Callers |-> "none"]
    /\ wiki_task = [c \in Callers |-> "none"]
    /\ hybrid = [c \in Callers |->
                    [kind |-> "none", local_results |-> "-",
                     wiki_result |-> "-"]]

\* hybrid_retrieve(q, ...), lines 157-177: local_task is created, and
\* wiki_task if should_query_wikimedia(q); the call awaits them
HybridRetrieve(c, q) ==
    /\ hstage[c] = "idle"
    /\ hits + misses < MaxHybridLookups
    /\ hstage' = [hstage EXCEPT ![c] = IF should_query_wikimedia(q)
                                       THEN "gather" ELSE "await_local"]
    /\ hquery' = [hquery EXCEPT ![c] = q]
    /\ local_task' = [local_task EXCEPT ![c] = "pending"]
    /\ wiki_task' = [wiki_task EXCEPT ![c] = IF should_query_wikimedia(q)
                                             THEN "pending" ELSE "none"]
    /\ UNCHANGED <<hybrid, now, breakerVars, fetchVars, limiterVars,
                   cacheVars, pipelineVars>>

\* the thread of asyncio.to_thread(retrieve, ...) ends in o
LocalEnds(c, o) ==
    /\ hstage[c] \in {"gather", "await_local"}
    /\ local_task[c] = "pending"
    /\ local_task' = [local_task EXCEPT ![c] = o]
    /\ UNCHANGED <<hstage, hquery, wiki_task, hybrid, now, breakerVars,
                   fetchVars, limiterVars, cacheVars, pipelineVars>>

\* wiki_task: search_wikipedia_cached(query) runs
WikiSearch(c, opens) ==
    /\ hstage[c] = "gather"
    /\ CachedSearch(c, hquery[c], opens)
    /\ UNCHANGED <<hstage, hquery, local_task, wiki_task, hybrid>>

WikiFetch(c, r) ==
    /\ hstage[c] = "gather"
    /\ PipelineFetch(c, r)
    /\ UNCHANGED <<hstage, hquery, local_task, wiki_task, hybrid>>

WikiExhausted(c) ==
    /\ hstage[c] = "gather"
    /\ PipelineExhausted(c)
    /\ UNCHANGED <<hstage, hquery, local_task, wiki_task, hybrid>>

\* lines 180-188: isinstance(x, Exception) replaces x by `empty`
OrEmpty(x, empty) == IF x \in ExceptionClasses THEN empty ELSE x

\* lines 177-199: both tasks are done and gather(..., return_exceptions =
\* True) hands over their results or exceptions (it raises nothing itself,
\* so the handler of lines 189-192 stays unused); or, with no wiki_task,
\* `await local_task` returns the thread's result or raises its exception
HybridReturns(c) ==
    /\ local_task[c] \notin {"none", "pending"}
    /\ hstage' = [hstage EXCEPT ![c] = "done"]
    /\ UNCHANGED <<hquery, local_task>>
    /\ IF hstage[c] = "gather"
       THEN /\ CachedDone(c)
            /\ wiki_task' = [wiki_task EXCEPT ![c] = outcome[c]]
            /\ hybrid' = [hybrid EXCEPT ![c] =
                            [kind |-> "return",
                             local_results |-> OrEmpty(local_task[c], "[]"),
                             wiki_result |-> OrEmpty(outcome[c], "None")]]
       ELSE /\ hstage[c] = "await_local"
            /\ hybrid' = [hybrid EXCEPT ![c] =
                            IF local_task[c] \in ExceptionClasses
                            THEN [kind |-> "raise",
                                  local_results |-> local_task[c],
                                  wiki_result |-> "-"]
                            ELSE [kind |-> "return",
                                  local_results |-> local_task[c],
                                  wiki_result |-> "None"]]
            /\ UNCHANGED <<wiki_task, now, breakerVars, fetchVars,
                           limiterVars, cacheVars, pipelineVars>>

\* the caller of hybrid_retrieve goes on
HybridDone(c) ==
    /\ hstage[c] = "done"
    /\ hstage' = [hstage EXCEPT ![c] = "idle"]
    /\ local_task' = [local_task EXCEPT ![c] = "none"]
    /\ wiki_task' = [wiki_task EXCEPT ![c] = "none"]
    /\ hybrid' = [hybrid EXCEPT ![c] =
                    [kind |-> "none", local_results |-> "-",
                     wiki_result |-> "-"]]
    /\ UNCHANGED <<hquery, now, breakerVars, fetchVars, limiterVars,
                   cacheVars, pipelineVars>>

HybridNext ==
    \/ TimePasses
    \/ \E c \in SeqCallers, q \in HybridQueries :
           HybridRetrieve(c, q) /\ UNCHANGED outsideOrchestration
    \/ \E c \in SeqCallers, o \in LocalOutcomes :
           LocalEnds(c, o) /\ UNCHANGED outsideOrchestration
    \/ \E c \in SeqCallers, opens \in BOOLEAN :
           WikiSearch(c, opens) /\ UNCHANGED outsideOrchestration
    \/ \E c \in SeqCallers, r \in PipelineResponses :
           WikiFetch(c, r) /\ UNCHANGED outsideOrchestration
    \/ \E c \in SeqCallers :
           WikiExhausted(c) /\ UNCHANGED outsideOrchestration
    \/ \E c \in SeqCallers :
           HybridReturns(c) /\ UNCHANGED outsideOrchestration
    \/ \E c \in SeqCallers :
           HybridDone(c) /\ UNCHANGED outsideOrchestration

---------------------------------------------------------------------------
(* Ranking: _single_query_retrieve and _rrf_fuse (retrieval.py) *)

(* A hit (score, meta) is the record [score, meta]. A score is a float,    *)
(* modelled as the fraction <<n, d>> in lowest terms; sums and comparisons *)
(* are those of the rationals.                                             *)

\* x + y
Plus(x, y) == Quotient(x[1] * y[2] + y[1] * x[2], x[2] * y[2])

\* x < y
Less(x, y) == x[1] * y[2] < y[1] * x[2]

\* s[:n], for n >= 0
Take(s, n) == SubSeq(s, 1, Min(n, Len(s)))

\* metas, the chunk metadata that ingest wrote for the index: metas[i + 1]
\* belongs to the vector with FAISS id i. Chunks of ingest.py:486 carry an
\* id, older ones are known by source, page and chunk_index.
Metas ==
    << [id |-> "A", source |-> "notes.pdf", page |-> 1, chunk_index |-> 0],
       [id |-> "B", source |-> "notes.pdf", page |-> 1, chunk_index |-> 1],
       [id |-> "", source |-> "notes.pdf", page |-> 2, chunk_index |-> 0] >>

\* _chunk_identifier, lines 226-230: str(id) when meta has a truthy id,
\* else "<source>_<page>_<chunk_index>"
chunk_identifier(meta) ==
    IF meta.id # ""
    THEN [id |-> meta.id, at |-> <<>>]
    ELSE [id |-> "", at |-> <<meta.source, meta.page, meta.chunk_index>>]

\* Contribution that ranks from 0
ContributionFromZero(K, rank) == Quotient(1, K + rank - 1)

\* _rrf_fuse, line 207: 1.0 / (rrf_constant + rank)
Contribution(K, rank) == Quotient(1, K + rank)

\* add_contributions, lines 202-207, from position `rank` of the list on:
\* `fused` is the dict as the sequence of its entries in insertion order
RECURSIVE add_contributions(_, _, _, _)
add_contributions(fused, hs, rank, K) ==
    IF hs = <<>> THEN fused
    ELSE LET meta == Head(hs).meta
             chunk_id == chunk_identifier(meta)
             known == \E i \in 1..Len(fused) : fused[i].chunk_id = chunk_id
             entries == IF known THEN fused
                        ELSE Append(fused, [chunk_id |-> chunk_id,
                                            meta |-> meta,
                                            score |-> <<0, 1>>])
         IN  add_contributions(
                 [i \in 1..Len(entries) |->
                     IF entries[i].chunk_id = chunk_id
                     THEN [entries[i] EXCEPT
                              !.score = Plus(@, Contribution(K, rank))]
                     ELSE entries[i]],
                 Tail(hs), rank + 1, K)

\* sorted(..., key = score, reverse = True) keeps equal scores in their
\* order: e goes behind every hit whose score is not less than its own
RECURSIVE InsertByScore(_, _)
InsertByScore(sorted, e) ==
    IF sorted = <<>> THEN <<e>>
    ELSE IF Less(Head(sorted).score, e.score) THEN <<e>> \o sorted
    ELSE <<Head(sorted)>> \o InsertByScore(Tail(sorted), e)

\* sorted(hits, key = lambda item: item[0], reverse = True)
RECURSIVE SortByScore(_)
SortByScore(hs) ==
    IF hs = <<>> THEN <<>>
    ELSE InsertByScore(SortByScore(SubSeq(hs, 1, Len(hs) - 1)),
                       hs[Len(hs)])

\* _rrf_fuse(vector_hits, lexical_hits, k, rrf_constant), lines 200-217
rrf_fuse(vhits, lhits, n, K) ==
    LET fused == add_contributions(add_contributions(<<>>, vhits, 1, K),
                                   lhits, 1, K)
    IN  Take(SortByScore([i \in 1..Len(fused) |->
                             [score |-> fused[i].score,
                              meta |-> fused[i].meta]]), n)

\* the similarity FAISS reports for the i-th nearest vector: 0.9, 0.8, ...
Similarity(i) == Quotient(10 - i, 10)

\* index.search(qv, n), line 151: ids[0] has n entries, the nearest
\* vectors' ids in order, filled up with -1
IndexSearch(ranking, n) ==
    [i \in 1..n |-> IF i <= Len(ranking) THEN ranking[i] ELSE -1]

\* _vector_search, lines 149-164: `found` is what embed_fn and index.search
\* come to
vector_search(found, n) ==
    IF found.raises THEN <<>>
    ELSE LET ids == IndexSearch(found.ranking, n)
             kept == SelectSeq([i \in 1..n |-> [pos |-> i, idx |-> ids[i]]],
                               LAMBDA e : /\ e.idx # -1
                                          /\ 0 <= e.idx
                                          /\ e.idx < Len(Metas))
         IN  [i \in 1..Len(kept) |->
                 [score |-> Similarity(kept[i].pos),
                  meta |-> Metas[kept[i].idx + 1]]]

\* np.argsort(scores)[::-1], line 186: positions (from 0) by descending
\* score; the sort of a short array is by insertion, so that after the
\* reversal equal scores come in descending position
RECURSIVE ranked_indices(_, _)
ranked_indices(scores, left) ==
    IF left = {} THEN <<>>
    ELSE LET best == CHOOSE i \in left :
                         \A j \in left :
                             \/ scores[i] > scores[j]
                             \/ scores[i] = scores[j] /\ i >= j
         IN  <<best - 1>> \o ranked_indices(scores, left \ {best})

\* _lexical_search, lines 173-191: `bm25` tells whether the query has
\* tokens, whether get_scores raises, and the scores it returns
lexical_search(bm25, n) ==
    IF ~bm25.tokens \/ bm25.raises \/ bm25.scores = <<>> THEN <<>>
    ELSE LET top == Take(ranked_indices(bm25.scores,
                                        1..Len(bm25.scores)), n)
             kept == SelectSeq(top, LAMBDA idx : /\ 0 <= idx
                                                 /\ idx < Len(Metas))
         IN  [i \in 1..Len(kept) |->
                 [score |-> <<bm25.scores[kept[i] + 1], 1>>,
                  meta |-> Metas[kept[i] + 1]]]

\* Unfused that fuses a single list too
FusedAlways(vhits, lhits, n, K) == rrf_fuse(vhits, lhits, n, K)

\* _single_query_retrieve, lines 137-139: one of the lists is empty
Unfused(vhits, lhits, n, K) ==
    IF lhits # <<>> THEN Take(lhits, n) ELSE vhits

\* _single_query_retrieve, lines 129-139
single_query_retrieve(found, bm25, enabled, n, K) ==
    LET vhits == vector_search(found, n)
        lhits == IF enabled THEN lexical_search(bm25, n) ELSE <<>>
    IN  IF vhits # <<>> /\ lhits # <<>>
        THEN rrf_fuse(vhits, lhits, n, K)
        ELSE Unfused(vhits, lhits, n, K)

\* the sequences over S of length at most n without a repetition
InjectiveSeqs(S, n) ==
    UNION {{s \in [1..m -> S] : \A i, j \in 1..m : i # j => s[i] # s[j]} :
              m \in 0..n}

\* what index.search can come to: an exception, or the ids of the nearest
\* vectors of an index of MaxVectors vectors, one more than metas has
FaissOutcomes ==
    {[raises |-> TRUE, ranking |-> <<>>]} \cup
    {[raises |-> FALSE, ranking |-> r] :
        r \in InjectiveSeqs(0..(MaxVectors - 1), MaxVectors)}

\* what BM25 can come to: a query without tokens, an exception of
\* get_scores, no scores, or a score for each chunk
Bm25Outcomes ==
    {[tokens |-> FALSE, raises |-> FALSE, scores |-> <<>>],
     [tokens |-> TRUE, raises |-> TRUE, scores |-> <<>>],
     [tokens |-> TRUE, raises |-> FALSE, scores |-> <<>>]} \cup
    {[tokens |-> TRUE, raises |-> FALSE, scores |-> s] :
        s \in [1..Len(Metas) -> 0..MaxBm25Score]}

\* config.py:61, the default of RRF_K
DefaultRrfK == 60

\* no retrieval has been made
RankingFresh ==
    /\ vector_hits = <<>>
    /\ lexical_hits = <<>>
    /\ retrieved = <<>>
    /\ fused_swapped = <<>>
    /\ rstage = "called"

\* a call _single_query_retrieve(query, index, metas, embed_fn, k,
\* hybrid_enabled, bm25, bm25_corpus, rrf_constant) and what its searches
\* will come to
RankingInit ==
    /\ faiss \in FaissOutcomes
    /\ bm25_scores \in Bm25Outcomes
    /\ hybrid_enabled \in BOOLEAN
    /\ k_results \in 1..MaxK
    /\ rrf_constant \in {1, DefaultRrfK}
    /\ RankingFresh

\* retrieval.py as imported: nothing to search
RankingIdle ==
    /\ faiss = [raises |-> FALSE, ranking |-> <<>>]
    /\ bm25_scores = [tokens |-> FALSE, raises |-> FALSE, scores |-> <<>>]
    /\ hybrid_enabled = FALSE
    /\ k_results = 3
    /\ rrf_constant = DefaultRrfK
    /\ RankingFresh

\* _single_query_retrieve runs: both searches, then the fusion or the one
\* list
SingleQueryRetrieve ==
    /\ rstage = "called"
    /\ vector_hits' = vector_search(faiss, k_results)
    /\ lexical_hits' = IF hybrid_enabled THEN lexical_search(bm25_scores,
                                               k_results)
                       ELSE <<>>
    /\ retrieved' = single_query_retrieve(faiss, bm25_scores,
                                          hybrid_enabled, k_results,
                                          rrf_constant)
    /\ rstage' = "returned"
    /\ UNCHANGED <<faiss, bm25_scores, hybrid_enabled, k_results, rrf_constant,
                   fused_swapped>>

\* _rrf_fuse on the same two lists, the lexical hits passed first
FuseSwapped ==
    /\ rstage = "returned"
    /\ vector_hits # <<>>
    /\ lexical_hits # <<>>
    /\ fused_swapped' = rrf_fuse(lexical_hits, vector_hits, k_results,
                              rrf_constant)
    /\ rstage' = "swapped"
    /\ UNCHANGED <<faiss, bm25_scores, hybrid_enabled, k_results, rrf_constant,
                   vector_hits, lexical_hits, retrieved>>

RankingNext ==
    \/ SingleQueryRetrieve /\ UNCHANGED outsideRanking
    \/ FuseSwapped /\ UNCHANGED outsideRanking

---------------------------------------------------------------------------
(* deduplicate_results (multi_query.py) *)

\* deduplicate_results, lines 225-228: meta.get('id', '') when it is
\* truthy, else "<source>_<page>_<chunk_index>"
result_identifier(meta) ==
    IF meta.id # ""
    THEN [id |-> meta.id, at |-> <<>>]
    ELSE [id |-> "", at |-> <<meta.source, meta.page, meta.chunk_index>>]

\* lines 221-234: results_by_id and metadata_by_id as the sequence of the
\* groups [chunk_id, meta, scores] in insertion order
RECURSIVE group_results(_, _)
group_results(groups, results) ==
    IF results = <<>> THEN groups
    ELSE LET chunk_id == result_identifier(Head(results).meta)
             known == \E i \in 1..Len(groups) : groups[i].chunk_id = chunk_id
             entries == IF known THEN groups
                        ELSE Append(groups, [chunk_id |-> chunk_id,
                                             meta |-> Head(results).meta,
                                             scores |-> <<>>])
         IN  group_results(
                 [i \in 1..Len(entries) |->
                     IF entries[i].chunk_id = chunk_id
                     THEN [entries[i] EXCEPT
                              !.scores = Append(@, Head(results).score)]
                     ELSE entries[i]],
                 Tail(results))

\* max(scores), line 240
max_score(scores) ==
    scores[CHOOSE i \in 1..Len(scores) :
               \A j \in 1..Len(scores) : ~Less(scores[i], scores[j])]

\* occurrence_bonus without its ceiling
occurrence_bonus_unbounded(n) == Quotient(2 * n, 100)

\* line 242: min(0.1, len(scores) * 0.02)
occurrence_bonus(n) == Quotient(Min(10, 2 * n), 100)

\* deduplicate_results(all_results, top_k), lines 217-249
deduplicate_results(results, top) ==
    IF results = <<>> THEN <<>>
    ELSE LET groups == group_results(<<>>, results)
         IN  Take(SortByScore(
                      [i \in 1..Len(groups) |->
                          [score |-> Plus(max_score(groups[i].scores),
                                          occurrence_bonus(
                                              Len(groups[i].scores))),
                           meta |-> groups[i].meta]]), top)

\* the hits the variants' retrievals bring: chunk A (which has an id) with
\* score 0.9 or 0.7, chunk B (which has none) with score 0.8 or 0.9
DedupHits ==
    {[score |-> Quotient(90, 100), meta |-> Metas[1]],
     [score |-> Quotient(70, 100), meta |-> Metas[1]],
     [score |-> Quotient(80, 100), meta |-> Metas[3]],
     [score |-> Quotient(90, 100), meta |-> Metas[3]]}

\* no call of deduplicate_results has returned
DedupFresh ==
    /\ deduplicated = <<>>
    /\ dstage = "called"

\* a call deduplicate_results(all_results, top_k)
DedupInit ==
    /\ all_results \in UNION {[1..n -> DedupHits] : n \in 0..MaxResults}
    /\ top_k \in 1..MaxTopK
    /\ DedupFresh

\* multi_query.py as imported: nothing to deduplicate
DedupIdle ==
    /\ all_results = <<>>
    /\ top_k = 5
    /\ DedupFresh

\* deduplicate_results runs
Deduplicate ==
    /\ dstage = "called"
    /\ deduplicated' = deduplicate_results(all_results, top_k)
    /\ dstage' = "returned"
    /\ UNCHANGED <<all_results, top_k>>

DedupNext == Deduplicate /\ UNCHANGED outsideDedup

---------------------------------------------------------------------------
(* generate_multi_queries (multi_query.py) *)

\* the string literals of _generate_with_heuristics, lines 162-190
phrase ==
    [what_is |-> <<"w", "h", "a", "t", " ", "i", "s">>,
     what_are |-> <<"w", "h", "a", "t", " ", "a", "r", "e">>,
     whats |-> <<"w", "h", "a", "t", "'", "s">>,
     how_does |-> <<"h", "o", "w", " ", "d", "o", "e", "s">>,
     how_do |-> <<"h", "o", "w", " ", "d", "o">>,
     how_to |-> <<"h", "o", "w", " ", "t", "o">>,
     work |-> <<"w", "o", "r", "k">>,
     why |-> <<"w", "h", "y">>,
     explain |-> <<"E", "x", "p", "l", "a", "i", "n", " ">>,
     definition |-> <<" ", "d", "e", "f", "i", "n", "i", "t", "i", "o", "n",
                      " ", "a", "n", "d", " ", "e", "x", "p", "l", "a", "n",
                      "a", "t", "i", "o", "n">>,
     mechanism |-> <<" ", "m", "e", "c", "h", "a", "n", "i", "s", "m", " ",
                     "a", "n", "d", " ", "p", "r", "o", "c", "e", "s", "s">>,
     understanding |-> <<"U", "n", "d", "e", "r", "s", "t", "a", "n", "d",
                         "i", "n", "g", " ">>,
     reasons |-> <<"R", "e", "a", "s", "o", "n", "s", " ", "f", "o", "r",
                   " ">>,
     causes |-> <<" ", "e", "x", "p", "l", "a", "n", "a", "t", "i", "o",
                  "n", " ", "a", "n", "d", " ", "c", "a", "u", "s", "e",
                  "s">>,
     key_information |-> <<"K", "e", "y", " ", "i", "n", "f", "o", "r", "m",
                           "a", "t", "i", "o", "n", " ", "a", "b", "o", "u",
                           "t", " ">>,
     please |-> <<"p", "l", "e", "a", "s", "e">>,
     could_you |-> <<"c", "o", "u", "l", "d", " ", "y", "o", "u">>,
     can_you |-> <<"c", "a", "n", " ", "y", "o", "u">>,
     would_you |-> <<"w", "o", "u", "l", "d", " ", "y", "o", "u">>,
     tell_me |-> <<"t", "e", "l", "l", " ", "m", "e">>]

\* s.replace(old, new), for a non-empty old
RECURSIVE Replace(_, _, _)
Replace(s, old, new) ==
    IF Len(s) < Len(old) THEN s
    ELSE IF StartsWith(s, old)
    THEN new \o Replace(SubSeq(s, Len(old) + 1, Len(s)), old, new)
    ELSE <<Head(s)>> \o Replace(Tail(s), old, new)

\* s.rstrip(chars)
RECURSIVE RStripChars(_, _)
RStripChars(s, chars) ==
    IF s # <<>> /\ s[Len(s)] \in chars
    THEN RStripChars(SubSeq(s, 1, Len(s) - 1), chars)
    ELSE s

\* s.strip(chars)
RECURSIVE LStripChars(_, _)
LStripChars(s, chars) ==
    IF s # <<>> /\ Head(s) \in chars THEN LStripChars(Tail(s), chars) ELSE s
StripChars(s, chars) == RStripChars(LStripChars(s, chars), chars)

\* the number of digits s begins with
RECURSIVE LeadingDigits(_)
LeadingDigits(s) ==
    IF s # <<>> /\ Head(s) \in {"0", "1", "2", "3", "4", "5", "6", "7", "8",
                                "9"}
    THEN 1 + LeadingDigits(Tail(s))
    ELSE 0

\* _generate_with_llm, line 89: re.sub(r'^\d+[\.\)]\s*', '', line)
RemoveNumbering(line) ==
    LET d == LeadingDigits(line)
    IN  IF d > 0 /\ d < Len(line) /\ line[d + 1] \in {".", ")"}
        THEN LStrip(SubSeq(line, d + 2, Len(line)))
        ELSE line

\* _generate_with_llm, line 90: a leading "-" or "*" (or a character of
\* the bullet's bytes) and the whitespace behind it are removed
RemoveBullet(line) ==
    IF line # <<>> /\ Head(line) \in {"-", "*"} THEN LStrip(Tail(line))
    ELSE line

\* _generate_with_llm, line 91: len(line) > 10
MinVariationLength == 10

\* _generate_with_llm, lines 84-94, on the lines of the backend's response
generate_with_llm(lines, num_variations) ==
    LET cleaned == [i \in 1..Len(lines) |->
                       RemoveBullet(RemoveNumbering(Strip(lines[i])))]
    IN  Take(SelectSeq(cleaned, LAMBDA l : Len(l) > MinVariationLength),
             num_variations)

\* _generate_with_heuristics, lines 162-180: the variations of a "what
\* is", "how does" or "why" question
QuestionVariations(query_lower) ==
    IF \/ StartsWith(query_lower, phrase.what_is)
       \/ StartsWith(query_lower, phrase.what_are)
       \/ StartsWith(query_lower, phrase.whats)
    THEN LET topic == StripChars(
                          Replace(Replace(Replace(query_lower,
                                                  phrase.what_is, <<>>),
                                          phrase.what_are, <<>>),
                                  phrase.whats, <<>>), {"?", " "})
         IN  IF topic # <<>>
             THEN <<phrase.explain \o topic, topic \o phrase.definition>>
             ELSE <<>>
    ELSE IF \/ StartsWith(query_lower, phrase.how_does)
            \/ StartsWith(query_lower, phrase.how_do)
            \/ StartsWith(query_lower, phrase.how_to)
    THEN LET topic == StripChars(
                          Replace(Replace(Replace(Replace(query_lower,
                                                          phrase.how_does,
                                                          <<>>),
                                                  phrase.how_do, <<>>),
                                          phrase.how_to, <<>>),
                                  phrase.work, <<>>), {"?", " "})
         IN  IF topic # <<>>
             THEN <<topic \o phrase.mechanism,
                    phrase.understanding \o topic>>
             ELSE <<>>
    ELSE IF StartsWith(query_lower, phrase.why)
    THEN LET topic == StripChars(Replace(query_lower, phrase.why, <<>>),
                                 {"?", " "})
         IN  IF topic # <<>>
             THEN <<phrase.reasons \o topic, topic \o phrase.causes>>
             ELSE <<>>
    ELSE <<>>

\* _generate_with_heuristics, lines 189-192: the filler words are removed
\* and the whitespace cleaned
Simplified(without_question) ==
    Join(<<" ">>,
         Split(Replace(Replace(Replace(Replace(Replace(without_question,
                                                       phrase.please, <<>>),
                                               phrase.could_you, <<>>),
                                       phrase.can_you, <<>>),
                               phrase.would_you, <<>>),
                       phrase.tell_me, <<>>)))

\* _generate_with_heuristics, lines 155-196
generate_with_heuristics(original, num_variations) ==
    LET without_question == Strip(RStripChars(original, {"?"}))
        phrased == QuestionVariations(Strip(Lower(original)))
        keyed == IF Len(phrased) < num_variations
                 THEN Append(phrased,
                             phrase.key_information \o without_question)
                 ELSE phrased
        variations ==
            IF /\ Len(keyed) < num_variations
               /\ Simplified(without_question) # original
            THEN Append(keyed, Simplified(without_question))
            ELSE keyed
    IN  Take(variations, num_variations)

\* lines 43-53: the original and the variations of the backend or, when it
\* raises or is not to be used, of the heuristics
candidate_queries(original, n, use, backend) ==
    <<original>> \o
    (IF use /\ ~backend.raises
     THEN generate_with_llm(backend.lines, n - 1)
     ELSE generate_with_heuristics(original, n - 1))

\* unique_queries that keeps every query
every_query(queries, seen) == [i \in 1..Len(queries) |-> Strip(queries[i])]

\* lines 56-62: the first query of each normalized form, stripped
RECURSIVE unique_queries(_, _)
unique_queries(queries, seen) ==
    IF queries = <<>> THEN <<>>
    ELSE LET q_normalized == Lower(Strip(Head(queries)))
         IN  IF q_normalized # <<>> /\ q_normalized \notin seen
             THEN <<Strip(Head(queries))>>
                      \o unique_queries(Tail(queries),
                                        seen \cup {q_normalized})
             ELSE unique_queries(Tail(queries), seen)

\* generate_multi_queries(original_query, num_queries, use_llm), lines
\* 40-64
generate_multi_queries(original, n, use, backend) ==
    IF Strip(original) = <<>> THEN <<original>>
    ELSE Take(unique_queries(candidate_queries(original, n, use, backend),
                             {}), n)

\* the questions asked: "what is pi?", "How to go", " Why go? ",
\* "please go now", "why", and the blank " "
OriginalQueries ==
    {<<"w", "h", "a", "t", " ", "i", "s", " ", "p", "i", "?">>,
     <<"H", "o", "w", " ", "t", "o", " ", "g", "o">>,
     <<" ", "W", "h", "y", " ", "g", "o", "?", " ">>,
     <<"p", "l", "e", "a", "s", "e", " ", "g", "o", " ", "n", "o", "w">>,
     <<"w", "h", "y">>,
     <<" ">>}

\* the lines a backend's response is made of: "1. What is PI?",
\* "- explain pi now", "explain pi now ", "too short", and the empty line
ResponseLines ==
    {<<"1", ".", " ", "W", "h", "a", "t", " ", "i", "s", " ", "P", "I",
       "?">>,
     <<"-", " ", "e", "x", "p", "l", "a", "i", "n", " ", "p", "i", " ", "n",
       "o", "w">>,
     <<"e", "x", "p", "l", "a", "i", "n", " ", "p", "i", " ", "n", "o", "w",
       " ">>,
     <<"t", "o", "o", " ", "s", "h", "o", "r", "t">>,
     <<>>}

\* what the generation backend comes to: it raises (no backend reachable,
\* no API key, an HTTP error), or it answers with up to MaxLines lines
BackendOutcomes ==
    {[raises |-> TRUE, lines |-> <<>>]} \cup
    {[raises |-> FALSE, lines |-> ls] :
        ls \in UNION {[1..m -> ResponseLines] : m \in 0..MaxLines}}

\* no call of generate_multi_queries has returned
QueriesFresh ==
    /\ candidates = <<>>
    /\ returned_queries = <<>>
    /\ qstage = "called"

\* a call generate_multi_queries(original_query, num_queries, use_llm) and
\* what the backend will come to
QueriesInit ==
    /\ original_query \in OriginalQueries
    /\ num_queries \in 1..MaxQueries
    /\ use_llm \in BOOLEAN
    /\ llm \in BackendOutcomes
    /\ QueriesFresh

\* multi_query.py as imported: nothing asked
QueriesIdle ==
    /\ original_query = <<>>
    /\ num_queries = 3
    /\ use_llm = TRUE
    /\ llm = [raises |-> TRUE, lines |-> <<>>]
    /\ QueriesFresh

\* generate_multi_queries runs; `candidates` keeps the list of line 43-53
\* it deduplicates
GenerateMultiQueries ==
    /\ qstage = "called"
    /\ candidates' = IF Strip(original_query) = <<>> THEN <<original_query>>
                     ELSE candidate_queries(original_query, num_queries,
                                            use_llm, llm)
    /\ returned_queries' = generate_multi_queries(original_query,
                                                  num_queries, use_llm, llm)
    /\ qstage' = "returned"
    /\ UNCHANGED <<original_query, num_queries, use_llm, llm>>

QueriesNext == GenerateMultiQueries /\ UNCHANGED outsideQueries

---------------------------------------------------------------------------
(* should_query_wikimedia, called on its own *)

\* the words the queries are made of: What, is, I, Pi, go, Define, tell,
\* me, about
QueryWords ==
    {<<"W", "h", "a", "t">>,
     <<"i", "s">>,
     <<"I">>,
     <<"P", "i">>,
     <<"g", "o">>,
     <<"D", "e", "f", "i", "n", "e">>,
     <<"t", "e", "l", "l">>,
     <<"m", "e">>,
     <<"a", "b", "o", "u", "t">>}

\* the queries of test_should_query_wikimedia (test_wikimedia.py:164-173)
\* taken up here
test_query ==
    [photosynthesis |-> <<"W", "h", "a", "t", " ", "i", "s", " ", "p", "h",
                          "o", "t", "o", "s", "y", "n", "t", "h", "e", "s",
                          "i", "s", "?">>,
     einstein |-> <<"E", "i", "n", "s", "t", "e", "i", "n", " ", "T", "h",
                    "e", "o", "r", "y">>,
     calculate |-> <<"c", "a", "l", "c", "u", "l", "a", "t", "e", " ", "2",
                     " ", "+", " ", "2">>,
     fix_bug |-> <<"H", "o", "w", " ", "d", "o", " ", "I", " ", "f", "i",
                   "x", " ", "t", "h", "i", "s", " ", "b", "u", "g", "?">>]

\* the queries asked: the test's, and up to MaxQueryWords words joined by
\* blanks, behind a blank or not
TriggerQueries ==
    {test_query[f] : f \in DOMAIN test_query} \cup
    {lead \o Join(<<" ">>, ws) :
        lead \in {<<>>, <<" ">>},
        ws \in UNION {[1..m -> QueryWords] : m \in 0..MaxQueryWords}}

\* should_query_wikimedia has not been called
TriggerIdle ==
    /\ asked = <<>>
    /\ should_query = FALSE

\* should_query_wikimedia(q) is called and returns
ShouldQueryWikimedia(q) ==
    /\ asked = <<>>
    /\ asked' = <<q>>
    /\ should_query' = should_query_wikimedia(q)

TriggerNext ==
    \E q \in TriggerQueries :
        ShouldQueryWikimedia(q) /\ UNCHANGED outsideTrigger

---------------------------------------------------------------------------
(* WikimediaRetriever._build_url *)

\* the names of the parameters
param ==
    [action |-> <<"a", "c", "t", "i", "o", "n">>,
     format |-> <<"f", "o", "r", "m", "a", "t">>,
     formatversion |-> <<"f", "o", "r", "m", "a", "t", "v", "e", "r", "s",
                         "i", "o", "n">>,
     titles |-> <<"t", "i", "t", "l", "e", "s">>,
     prop |-> <<"p", "r", "o", "p">>,
     redirects |-> <<"r", "e", "d", "i", "r", "e", "c", "t", "s">>,
     exintro |-> <<"e", "x", "i", "n", "t", "r", "o">>,
     explaintext |-> <<"e", "x", "p", "l", "a", "i", "n", "t", "e", "x",
                       "t">>,
     rvprop |-> <<"r", "v", "p", "r", "o", "p">>,
     maxlag |-> <<"m", "a", "x", "l", "a", "g">>,
     page |-> <<"p", "a", "g", "e">>,
     search |-> <<"s", "e", "a", "r", "c", "h">>,
     limit |-> <<"l", "i", "m", "i", "t">>,
     namespace |-> <<"n", "a", "m", "e", "s", "p", "a", "c", "e">>,
     unknown_param |-> <<"u", "n", "k", "n", "o", "w", "n", "_", "p", "a",
                         "r", "a", "m">>]

\* the actions of line 254, and one that is not allowed
api_actions ==
    [query |-> <<"q", "u", "e", "r", "y">>,
     parse |-> <<"p", "a", "r", "s", "e">>,
     opensearch |-> <<"o", "p", "e", "n", "s", "e", "a", "r", "c", "h">>,
     delete |-> <<"d", "e", "l", "e", "t", "e">>]
\* __init__, line 188, and config.py:26-29: the default api_endpoint
default_endpoint ==
    <<"h", "t", "t", "p", "s", ":", "/", "/", "e", "n", ".", "w", "i", "k",
      "i", "p", "e", "d", "i", "a", ".", "o", "r", "g", "/", "w", "/", "a",
      "p", "i", ".", "p", "h", "p">>

\* line 254
ALLOWED_ACTIONS ==
    {api_actions.query, api_actions.parse, api_actions.opensearch}

\* lines 263-267; PARAM_WHITELIST.get(action, set())
PARAM_WHITELIST(action) ==
    IF action = api_actions.query
    THEN {param.titles, param.prop, param.redirects, param.exintro,
          param.explaintext, param.rvprop, param.maxlag}
    ELSE IF action = api_actions.parse
    THEN {param.page, param.prop, param.redirects, param.maxlag}
    ELSE IF action = api_actions.opensearch
    THEN {param.search, param.limit, param.namespace, param.maxlag}
    ELSE {}

\* a value of the caller's dict: a str, or an int below 10
StrValue(s) == [type |-> "str", s |-> s]
IntValue(i) == [type |-> "int", i |-> i]

\* str(value)
Digits == <<"0", "1", "2", "3", "4", "5", "6", "7", "8", "9">>
Str(value) ==
    IF value.type = "int" THEN <<Digits[value.i + 1]>> ELSE value.s

\* urllib.parse.quote_plus: the characters it leaves alone
Unreserved ==
    {UpperCase[i] : i \in 1..Len(UpperCase)} \cup
    {LowerCase[i] : i \in 1..Len(LowerCase)} \cup
    {"0", "1", "2", "3", "4", "5", "6", "7", "8", "9", "_", ".", "-", "~"}

\* urllib.parse.quote_plus of one character: a blank becomes "+", a
\* character outside Unreserved its %XX
QuoteChar(c) ==
    IF c \in Unreserved THEN <<c>>
    ELSE CASE c = " " -> <<"+">>
           [] c = "&" -> <<"%", "2", "6">>
           [] c = "=" -> <<"%", "3", "D">>
           [] c = "?" -> <<"%", "3", "F">>
           [] c = "+" -> <<"%", "2", "B">>
           [] c = "%" -> <<"%", "2", "5">>
           [] c = "|" -> <<"%", "7", "C">>
           [] c = "#" -> <<"%", "2", "3">>

\* quote_plus that leaves every character alone
quote_raw(s) == s

\* urllib.parse.quote_plus(s)
RECURSIVE quote_plus(_)
quote_plus(s) ==
    IF s = <<>> THEN <<>>
    ELSE QuoteChar(Head(s)) \o quote_plus(Tail(s))

\* safe_params[key] = value: a dict keeps the place of a key it has
RECURSIVE SetItem(_, _, _)
SetItem(items, key, value) ==
    IF items = <<>> THEN <<[k |-> key, v |-> value]>>
    ELSE IF Head(items).k = key
    THEN <<[k |-> key, v |-> value]>> \o Tail(items)
    ELSE <<Head(items)>> \o SetItem(Tail(items), key, value)

\* lines 269-273: the loop over params.items()
RECURSIVE safe_params(_, _, _)
safe_params(safe, action, params) ==
    IF params = <<>> THEN safe
    ELSE IF Head(params).k \notin PARAM_WHITELIST(action)
    THEN safe_params(safe, action, Tail(params))
    ELSE safe_params(SetItem(safe, Head(params).k, Str(Head(params).v)),
                     action, Tail(params))

\* line 276: "&".join(f"{k}={quote_plus(str(v))}" ...)
RECURSIVE query_string(_)
query_string(items) ==
    IF items = <<>> THEN <<>>
    ELSE Head(items).k \o <<"=">> \o quote_plus(Head(items).v)
             \o (IF Tail(items) = <<>> THEN <<>>
                 ELSE <<"&">> \o query_string(Tail(items)))

\* _build_url(action, params), lines 254-277: the URL it returns, or the
\* exception it raises
build_url(endpoint, action, params) ==
    IF action \notin ALLOWED_ACTIONS
    THEN [ended |-> "ValueError", url |-> <<>>]
    ELSE [ended |-> "returned",
          url |-> endpoint \o <<"?">> \o
                  query_string(
                      safe_params(
                          <<[k |-> param.action, v |-> action],
                            [k |-> param.format,
                             v |-> <<"j", "s", "o", "n">>],
                            [k |-> param.formatversion, v |-> <<"2">>]>>,
                          action, params))]

\* _build_url has not been called
NotBuilt == [ended |-> "-", url |-> <<>>]

\* a value of the caller's that spells out a parameter: "1&format=xml"
v_injection == <<"1", "&", "f", "o", "r", "m", "a", "t", "=", "x", "m", "l">>

\* the keys and values of the caller's dicts; the values are "a b",
\* "1&format=xml" and 5
CallerKeys == {param.action, param.format, param.formatversion,
               param.titles, param.page, param.search, param.maxlag,
               param.unknown_param}
CallerValues ==
    {StrValue(<<"a", " ", "b">>), StrValue(v_injection), IntValue(5)}

\* the dicts of at most n items: the keys of a dict differ
Dicts(n) ==
    UNION {{[i \in 1..m |-> [k |-> ks[i], v |-> vs[i]]] :
               ks \in {f \in [1..m -> CallerKeys] :
                          \A i, j \in 1..m : f[i] = f[j] => i = j},
               vs \in [1..m -> CallerValues]} : m \in 0..n}

\* a retriever and the arguments of a call of its _build_url
UrlInit ==
    /\ api_endpoint = default_endpoint
    /\ api_action \in ALLOWED_ACTIONS \cup {api_actions.delete}
    /\ api_params \in Dicts(MaxParams)
    /\ built_url = NotBuilt

\* no call of _build_url
UrlIdle ==
    /\ api_endpoint = default_endpoint
    /\ api_action = api_actions.query
    /\ api_params = <<>>
    /\ built_url = NotBuilt

\* _build_url(api_action, api_params) returns or raises
BuildUrl ==
    /\ built_url = NotBuilt
    /\ built_url' = build_url(api_endpoint, api_action, api_params)
    /\ UNCHANGED <<api_endpoint, api_action, api_params>>

UrlNext == BuildUrl /\ UNCHANGED outsideUrl

---------------------------------------------------------------------------
(* WikimediaRetriever(user_agent=...), called on its own *)

\* no retriever has been constructed
ConstructorIdle ==
    /\ user_agent = NoUserAgent
    /\ constructed = "-"

\* WikimediaRetriever(user_agent=ua) is called and returns or raises
ConstructRetriever(ua) ==
    /\ constructed = "-"
    /\ user_agent' = ua
    /\ constructed' = Construct(httpx_installed, ua)

ConstructorNext ==
    \E ua \in UserAgentsUpTo(MaxUserAgentWords) :
        ConstructRetriever(ua) /\ UNCHANGED outsideConstructor

---------------------------------------------------------------------------
(* WikimediaRetriever._parse_response: the extract *)

\* _parse_response, line 351: len(extract.strip()) < 50
MinExtractLength == 50

\* ch * n
Repeat(ch, n) == [i \in 1..n |-> ch]

\* clean_wikitext, lines 165-180, of a text without "{{", "[[" or "<!--",
\* where the substitutions of lines 169-175 find nothing: every run of
\* whitespace becomes one space (line 178) and the ends are stripped
clean_wikitext(text) ==
    LET marked == [i \in 1..Len(text) |->
                     [ch |-> IF text[i] \in Whitespace THEN " " ELSE text[i],
                      first |-> i = 1 \/ text[i - 1] \notin Whitespace]]
        kept == SelectSeq(marked, LAMBDA m : m.ch # " " \/ m.first)
    IN  Strip([i \in 1..Len(kept) |-> kept[i].ch])

\* s.rsplit(sep, 1)[0]: what stands before the last sep, all of s when
\* there is none
RSplitHeadOn(s, sep) ==
    LET at == {i \in 1..Len(s) : s[i] = sep}
    IN  IF at = {} THEN s
        ELSE SubSeq(s, 1, (CHOOSE i \in at : \A j \in at : j <= i) - 1)

\* _parse_response, lines 350-374, of a page that is there: None, or the
\* record with its extract
parse_response(text, max_length) ==
    LET extract == clean_wikitext(text)
    IN  IF Len(Strip(extract)) < MinExtractLength
        THEN [ended |-> "None", extract |-> <<>>]
        ELSE [ended |-> "record",
              extract |-> IF Len(extract) > max_length
                          THEN RSplitHeadOn(SubSeq(extract, 1, max_length),
                                            ".") \o <<".">>
                          ELSE extract]

\* the lengths of a run of one character in an extract: one, and around
\* MinExtractLength
RunLengths ==
    {1} \cup ((MinExtractLength - MaxOver)..(MinExtractLength + MaxOver))

\* letters, a full stop, whitespace
ExtractCharacters == {"a", ".", " ", "\n"}

RECURSIVE Runs(_)
\* the texts of up to n runs
Runs(n) ==
    IF n = 0 THEN {<<>>}
    ELSE LET shorter == Runs(n - 1)
         IN  shorter \cup
               {Repeat(ch, len) \o s :
                  ch \in ExtractCharacters, len \in RunLengths,
                  s \in shorter}

\* self.max_extract_length, around MinExtractLength
ExtractLengths == MinExtractLength..(MinExtractLength + MaxOver)

\* _parse_response has not been called
ParseIdle ==
    /\ page_extract = <<>>
    /\ max_extract_length = MinExtractLength
    /\ parsed = [ended |-> "-", extract |-> <<>>]

ParseInit ==
    /\ page_extract \in Runs(MaxRuns)
    /\ max_extract_length \in ExtractLengths
    /\ parsed = [ended |-> "-", extract |-> <<>>]

\* _parse_response is called on the page and returns
ParseResponseCall ==
    /\ parsed.ended = "-"
    /\ parsed' = parse_response(page_extract, max_extract_length)
    /\ UNCHANGED <<page_extract, max_extract_length>>

ParseNext ==
    ParseResponseCall
        /\ UNCHANGED <<outsideCalls, multiVars, loadVars, sharedVars>>

---------------------------------------------------------------------------
(* retrieve: multi-query retrieval (retrieval.py) *)

\* the hits one query's retrieval brings
VariantHits ==
    {[score |-> Quotient(90, 100), meta |-> Metas[1]],
     [score |-> Quotient(80, 100), meta |-> Metas[3]]}

\* what _single_query_retrieve comes to for one query: its hits, or an
\* exception raised outside the try blocks of _vector_search and
\* _lexical_search (lines 155-164, 183-191: what the index or BM25 handed
\* back cannot be read)
RetrievalOutcomes ==
    {[raises |-> TRUE, hits |-> <<>>]} \cup
    {[raises |-> FALSE, hits |-> h] :
        h \in UNION {[1..n -> VariantHits] : n \in 0..MaxVariantHits}}

\* retrieve, lines 62-75: all_results.extend(results) for each query, up
\* to the first retrieval that raises
RECURSIVE extend_all(_)
extend_all(outcomes) ==
    IF outcomes = <<>> THEN [raises |-> FALSE, hits |-> <<>>]
    ELSE IF Head(outcomes).raises THEN [raises |-> TRUE, hits |-> <<>>]
    ELSE LET rest == extend_all(Tail(outcomes))
         IN  IF rest.raises THEN rest
             ELSE [raises |-> FALSE,
                   hits |-> Head(outcomes).hits \o rest.hits]

\* retrieve, lines 55-96, for a query that is not blank: `per` is what the
\* retrievals of the generated queries come to, `original` what the
\* retrieval of line 86 comes to
retrieve(multi, n, per, original) ==
    LET extended == extend_all(per)
    IN  IF multi /\ ~extended.raises /\ extended.hits # <<>>
        THEN [ended |-> "returned",
              hits |-> deduplicate_results(extended.hits, n)]
        ELSE IF original.raises
        THEN [ended |-> "raised", hits |-> <<>>]
        ELSE [ended |-> "returned", hits |-> original.hits]

\* retrieve has not been called
MultiIdle ==
    /\ use_multi_query = FALSE
    /\ k_retrieve = 3
    /\ per_query = <<>>
    /\ for_original = [raises |-> FALSE, hits |-> <<>>]
    /\ retrieve_result = [ended |-> "-", hits |-> <<>>]

\* a call retrieve(query, ..., k, use_multi_query), and what the retrievals
\* it makes will come to
MultiInit ==
    /\ use_multi_query \in BOOLEAN
    /\ k_retrieve \in 1..MaxTopK
    /\ per_query \in UNION {[1..n -> RetrievalOutcomes] : n \in 1..MaxVariants}
    /\ for_original \in RetrievalOutcomes
    /\ retrieve_result = [ended |-> "-", hits |-> <<>>]

\* retrieve runs and returns or raises
Retrieve ==
    /\ retrieve_result.ended = "-"
    /\ retrieve_result' = retrieve(use_multi_query, k_retrieve, per_query,
                                   for_original)
    /\ UNCHANGED <<use_multi_query, k_retrieve, per_query, for_original>>

MultiNext ==
    Retrieve /\ UNCHANGED <<outsideCalls, parseVars, loadVars, sharedVars>>

---------------------------------------------------------------------------
(* load_index_and_meta (indexing.py) *)

\* the embedding backends of config.py:14-21, and one it does not know
Backends == {"openrouter", "sbert", "ollama", "other"}

\* load_index_and_meta, lines 105-112, with the defaults of config.py:45-51
current_model(backend) ==
    CASE backend = "openrouter" -> "thenlper/gte-large"
      [] backend = "sbert" -> "sentence-transformers/all-MiniLM-L6-v2"
      [] backend = "ollama" -> "nomic-embed-text"
      [] OTHER -> "unknown"

\* the "dim" of the stored configuration: absent, a number, or a text that
\* int() does not read
StoredDims ==
    {[given |-> "absent", n |-> 0], [given |-> "text", n |-> 0]} \cup
    {[given |-> "int", n |-> n] : n \in 1..MaxDim}

\* what CONFIG_PATH holds: nothing, a file that is not JSON, or the
\* configuration that ingest.py:570-574 wrote
StoredConfigs ==
    {[kind |-> kind, embed_backend |-> "sbert",
      embed_model |-> current_model("sbert"),
      dim |-> [given |-> "absent", n |-> 0]] :
        kind \in {"absent", "not_json"}} \cup
    {[kind |-> "config", embed_backend |-> b, embed_model |-> current_model(m),
      dim |-> d] :
        b \in Backends \ {"other"}, m \in Backends \ {"other"},
        d \in StoredDims}

\* load_index_and_meta, lines 115-126: the list of mismatches
mismatches(backend, cfg, d) ==
    (IF cfg.embed_backend # backend THEN <<"backend">> ELSE <<>>)
       \o (IF cfg.embed_model # current_model(backend)
           THEN <<"model">> ELSE <<>>)
       \o (IF cfg.dim.given = "int" /\ cfg.dim.n # d
           THEN <<"dim">> ELSE <<>>)

\* load_index_and_meta, lines 97-128, and _log_index_mismatch, lines
\* 64-71: what the validation logs, at which level
validation_log(backend, cfg, d) ==
    IF cfg.kind = "absent" THEN [level |-> "-", about |-> <<>>]
    ELSE IF cfg.kind = "not_json" \/ cfg.dim.given = "text"
    THEN [level |-> "debug", about |-> <<"validation failed">>]
    ELSE IF mismatches(backend, cfg, d) = <<>>
    THEN [level |-> "-", about |-> <<>>]
    ELSE [level |-> "warning", about |-> mismatches(backend, cfg, d)]

\* load_index_and_meta, lines 80-130, with _INDEX_CACHE empty
load_index_and_meta(files, backend, cfg, d) ==
    IF ~files
    THEN [ended |-> "returned", index |-> "None",
          logged |-> [level |-> "-", about |-> <<>>]]
    ELSE [ended |-> "returned", index |-> "index",
          logged |-> validation_log(backend, cfg, d)]

\* indexing.py as imported: nothing is loaded
LoadIdle ==
    /\ index_files = FALSE
    /\ EMBED_BACKEND = "sbert"
    /\ stored_config = [kind |-> "absent", embed_backend |-> "sbert",
                        embed_model |-> current_model("sbert"),
                        dim |-> [given |-> "absent", n |-> 0]]
    /\ index_d = 1
    /\ loaded = [ended |-> "-", index |-> "None",
                 logged |-> [level |-> "-", about |-> <<>>]]

\* the store and the configuration that a call finds
LoadInit ==
    /\ index_files \in BOOLEAN
    /\ EMBED_BACKEND \in Backends
    /\ stored_config \in StoredConfigs
    /\ index_d \in 1..MaxDim
    /\ loaded = [ended |-> "-", index |-> "None",
                 logged |-> [level |-> "-", about |-> <<>>]]

\* load_index_and_meta is called and returns
LoadIndexAndMeta ==
    /\ loaded.ended = "-"
    /\ loaded' = load_index_and_meta(index_files, EMBED_BACKEND,
                                     stored_config, index_d)
    /\ UNCHANGED <<index_files, EMBED_BACKEND, stored_config, index_d>>

LoadNext ==
    LoadIndexAndMeta
        /\ UNCHANGED <<outsideCalls, parseVars, multiVars, sharedVars>>

---------------------------------------------------------------------------
(* The shared retriever's client under concurrent requests *)

(* Two calls of search_wikipedia_cached that missed the cache run as       *)
(* asyncio tasks on the module's one WikimediaRetriever; a task gives way  *)
(* to the other at its awaits (acquire, get, sleep, aclose).               *)

\* the retriever as constructed: self._client = None, line 221
SharedInit ==
    /\ http_clients = <<>>
    /\ self_client = 0
    /\ in_flight = [c \in Callers |-> 0]
    /\ request = [c \in Callers |-> "idle"]

SharedIdle == SharedInit

\* __aenter__, lines 225-237: self._client = httpx.AsyncClient(...)
AEnter(c) ==
    /\ request[c] = "idle"
    /\ Len(http_clients) < MaxClients
    /\ http_clients' = Append(http_clients, "open")
    /\ self_client' = Len(http_clients) + 1
    /\ request' = [request EXCEPT ![c] = "entered"]
    /\ UNCHANGED in_flight

\* _fetch_with_maxlag, line 298: self._client.get(url) is sent on the
\* client that self._client is now; a closed client refuses the request
\* (RuntimeError, which search turns into None)
SendGet(c) ==
    /\ request[c] = "entered"
    /\ IF http_clients[self_client] = "closed"
       THEN /\ request' = [request EXCEPT ![c] = "raised"]
            /\ UNCHANGED in_flight
       ELSE /\ request' = [request EXCEPT ![c] = "in_flight"]
            /\ in_flight' = [in_flight EXCEPT ![c] = self_client]
    /\ UNCHANGED <<http_clients, self_client>>

\* the GET ends: the loop of lines 296-322 goes round again or the fetch
\* is over; on a client closed in the meantime the request is answered
\* or fails
GetEnds(c, again, answered) ==
    /\ request[c] = "in_flight"
    /\ in_flight' = [in_flight EXCEPT ![c] = 0]
    /\ request' = [request EXCEPT ![c] =
                     IF http_clients[in_flight[c]] = "closed"
                     THEN (IF answered THEN "answered" ELSE "raised")
                     ELSE IF again THEN "entered" ELSE "answered"]
    /\ UNCHANGED <<http_clients, self_client>>

\* __aexit__, lines 239-242: if self._client: await self._client.aclose()
AExit(c) ==
    /\ request[c] \in {"answered", "raised"}
    /\ http_clients' = IF self_client = 0 THEN http_clients
                       ELSE [http_clients EXCEPT ![self_client] = "closed"]
    /\ request' = [request EXCEPT ![c] = "idle"]
    /\ UNCHANGED <<self_client, in_flight>>

SharedNext ==
    \/ \E c \in Callers : AEnter(c) /\ UNCHANGED outsideShared
    \/ \E c \in Callers : SendGet(c) /\ UNCHANGED outsideShared
    \/ \E c \in Callers, again \in BOOLEAN, answered \in BOOLEAN :
           GetEnds(c, again, answered) /\ UNCHANGED outsideShared
    \/ \E c \in Callers : AExit(c) /\ UNCHANGED outsideShared

---------------------------------------------------------------------------
(* The functions, as imported and not called *)

CallsIdle ==
    /\ ParseIdle
    /\ MultiIdle
    /\ LoadIdle
    /\ SharedIdle

FunctionsIdle ==
    /\ QueriesIdle
    /\ TriggerIdle
    /\ UrlIdle
    /\ ConstructorIdle
    /\ CallsIdle

---------------------------------------------------------------------------
(* The layers above, as imported and not called *)

RetrievalIdle ==
    /\ ModulePipelineInit
    /\ HybridIdle
    /\ RankingIdle
    /\ DedupIdle
    /\ FunctionsIdle

---------------------------------------------------------------------------
(* Specifications *)

InitBreaker ==
    /\ now = 0
    /\ RetrievalIdle
    /\ BreakerInit
    /\ FetchInit
    /\ RetrieverLimiterInit
    /\ ModuleCacheInit

\* concurrent callers of one breaker around an arbitrary function
SpecBreaker == InitBreaker /\ [][BreakerNext(Callers)]_vars

\* one caller: every call ends before the next begins
SpecBreakerSeq == InitBreaker /\ [][BreakerNext(SeqCallers)]_vars

\* concurrent callers for ever: time keeps passing, every caller keeps
\* calling (a caller that has its outcome goes on, an idle caller calls),
\* and every wrapped function that was started returns or raises
SpecBreakerLive ==
    /\ InitBreaker
    /\ [][BreakerLiveNext]_vars
    /\ WF_vars(TimePassesLive)
    /\ \A c \in Callers :
           /\ WF_vars(Call(c))
           /\ WF_vars(FuncReturns(c) \/ FuncRaisesLive(c))
           /\ WF_vars(CallDone(c))

InitFetch ==
    /\ now = 0
    /\ RetrievalIdle
    /\ RetrieverBreakerInit
    /\ FetchInit
    /\ RetrieverLimiterInit
    /\ ModuleCacheInit

\* concurrent searches through the retriever's breaker
SpecFetch == InitFetch /\ [][FetchNext]_vars

InitLimiter ==
    /\ now = 0
    /\ RetrievalIdle
    /\ LimiterInit
    /\ RetrieverBreakerInit
    /\ FetchInit
    /\ ModuleCacheInit

\* concurrent callers of one limiter
SpecLimiter == InitLimiter /\ [][LimiterNext]_vars

\* one caller of a limiter
SpecLimiterSeq == InitLimiter /\ [][LimiterSeqNext]_vars

InitCache ==
    /\ now = 0
    /\ RetrievalIdle
    /\ CacheInit
    /\ RetrieverBreakerInit
    /\ FetchInit
    /\ RetrieverLimiterInit

\* any sequence of operations on one cache
SpecCache == InitCache /\ [][CacheNext]_vars

InitPipeline ==
    /\ now = 0
    /\ PipelineInit
    /\ HybridIdle
    /\ RankingIdle
    /\ DedupIdle
    /\ FunctionsIdle
    /\ RetrieverBreakerInit
    /\ FetchInit
    /\ RetrieverLimiterInit
    /\ ModuleCacheInit

\* one caller of search_wikipedia_cached after another
SpecPipeline == InitPipeline /\ [][PipelineNext]_vars

\* one caller of hybrid_retrieve after another
SpecHybrid == InitPipeline /\ [][HybridNext]_vars

InitRanking ==
    /\ now = 0
    /\ RankingInit
    /\ RetrieverBreakerInit
    /\ FetchInit
    /\ RetrieverLimiterInit
    /\ ModuleCacheInit
    /\ ModulePipelineInit
    /\ HybridIdle
    /\ DedupIdle
    /\ FunctionsIdle

\* one call of _single_query_retrieve for every outcome of its searches
SpecRanking == InitRanking /\ [][RankingNext]_vars

InitDedup ==
    /\ now = 0
    /\ DedupInit
    /\ RetrieverBreakerInit
    /\ FetchInit
    /\ RetrieverLimiterInit
    /\ ModuleCacheInit
    /\ ModulePipelineInit
    /\ HybridIdle
    /\ RankingIdle
    /\ FunctionsIdle

\* one call of deduplicate_results for every list of hits
SpecDedup == InitDedup /\ [][DedupNext]_vars

\* the layers below the functions, as imported
InitBelow ==
    /\ now = 0
    /\ RetrieverBreakerInit
    /\ FetchInit
    /\ RetrieverLimiterInit
    /\ ModuleCacheInit
    /\ HybridIdle
    /\ RankingIdle
    /\ DedupIdle

InitQueries ==
    /\ InitBelow
    /\ ModulePipelineInit
    /\ QueriesInit
    /\ TriggerIdle
    /\ UrlIdle
    /\ ConstructorIdle
    /\ CallsIdle

\* one call of generate_multi_queries for every outcome of the backend
SpecQueries == InitQueries /\ [][QueriesNext]_vars

InitTrigger ==
    /\ InitBelow
    /\ \E enabled \in BOOLEAN : PipelineFresh(enabled, DefaultUserAgent, TRUE)
    /\ QueriesIdle
    /\ TriggerIdle
    /\ UrlIdle
    /\ ConstructorIdle
    /\ CallsIdle

\* one call of should_query_wikimedia for every query
SpecTrigger == InitTrigger /\ [][TriggerNext]_vars

InitUrl ==
    /\ InitBelow
    /\ ModulePipelineInit
    /\ QueriesIdle
    /\ TriggerIdle
    /\ UrlInit
    /\ ConstructorIdle
    /\ CallsIdle

\* one call of _build_url for every action and dict
SpecUrl == InitUrl /\ [][UrlNext]_vars

InitConstructor ==
    /\ InitBelow
    /\ \E installed \in BOOLEAN :
           PipelineFresh(TRUE, DefaultUserAgent, installed)
    /\ QueriesIdle
    /\ TriggerIdle
    /\ UrlIdle
    /\ ConstructorIdle
    /\ CallsIdle

\* one construction of a WikimediaRetriever for every User-Agent
SpecConstructor == InitConstructor /\ [][ConstructorNext]_vars

\* the layers below the further functions, as imported
InitUnderCalls ==
    /\ InitBelow
    /\ ModulePipelineInit
    /\ QueriesIdle
    /\ TriggerIdle
    /\ UrlIdle
    /\ ConstructorIdle

InitParse ==
    /\ InitUnderCalls
    /\ ParseInit
    /\ MultiIdle
    /\ LoadIdle
    /\ SharedIdle

\* one call of _parse_response for every extract and max_extract_length
SpecParse == InitParse /\ [][ParseNext]_vars

InitMulti ==
    /\ InitUnderCalls
    /\ ParseIdle
    /\ MultiInit
    /\ LoadIdle
    /\ SharedIdle

\* one call of retrieve for every outcome of its retrievals
SpecMulti == InitMulti /\ [][MultiNext]_vars

InitLoad ==
    /\ InitUnderCalls
    /\ ParseIdle
    /\ MultiIdle
    /\ LoadInit
    /\ SharedIdle

\* one call of load_index_and_meta for every store and configuration
SpecLoad == InitLoad /\ [][LoadNext]_vars

InitShared ==
    /\ InitUnderCalls
    /\ ParseIdle
    /\ MultiIdle
    /\ LoadIdle
    /\ SharedInit

\* two concurrent requests on the module's retriever
SpecShared == InitShared /\ [][SharedNext]_vars

---------------------------------------------------------------------------
(* CircuitBreaker: claims C1-C5 *)

\* a step in which caller c enters call
Enters(c) == pc[c] = "idle" /\ pc'[c] # "idle"

\* a step in which the wrapped function of caller c returns or raises
Completes(c) == pc[c] = "running" /\ pc'[c] # "running"

\* the wrapped functions in flight that were let through as probes of
\* HALF_OPEN
Probes == {c \in Callers : pc[c] = "running" /\ admitted[c] = "HALF_OPEN"}

\* C1: a call entered while the breaker is OPEN and no more than timeout has
\* passed since last_failure_time raises CircuitBreakerOpenError, and the
\* wrapped function is not started, whatever the other callers are doing.
C1_OpenRejects ==
    [][\A c \in Callers :
         (Enters(c) /\ state = "OPEN" /\ now - last_failure_time <= timeout)
            => (pc'[c] = "open_error" /\ state' = "OPEN")]_vars

\* C1's case: a caller was rejected within the timeout while another
\* caller's function is still in flight
C1_Witness ==
    \E c, d \in Callers :
        /\ pc[c] = "open_error"
        /\ pc[d] = "running"
        /\ state = "OPEN"
        /\ now - last_failure_time = timeout

\* C2: with one caller, starting CLOSED with no failures: while CLOSED,
\* failures is the number of consecutive failures and is below the
\* threshold; once failure_threshold consecutive failures have happened the
\* state is OPEN when the call ends; the state leaves CLOSED only by the
\* failure that completes such a run; a success while CLOSED leaves the
\* state CLOSED with failures 0.
C2_OpensAtThreshold ==
    /\ [](state = "CLOSED" => failures = streak /\ streak < failure_threshold)
    /\ [](\A c \in SeqCallers :
            (pc[c] # "running" /\ streak >= failure_threshold)
               => state = "OPEN")
    /\ [][(state = "CLOSED" /\ state' # "CLOSED")
             => (state' = "OPEN" /\ streak' = failure_threshold)]_vars
    /\ [][\A c \in SeqCallers :
            (Completes(c) /\ state = "CLOSED" /\ pc'[c] = "returned")
               => (state' = "CLOSED" /\ failures' = 0)]_vars

\* C2's case: the breaker has just opened on the last of three consecutive
\* failures
C2_Witness ==
    /\ failure_threshold = 3
    /\ state = "OPEN"
    /\ streak = 3
    /\ pc["c1"] = "raised"

\* C3: a call entered while OPEN with more than timeout passed since the
\* last failure moves the breaker to HALF_OPEN and starts the wrapped
\* function; the breaker is never HALF_OPEN with success_threshold
\* consecutive successes behind it, and the success that completes such a
\* run leaves it CLOSED with failures and successes 0.
C3_Recovery ==
    /\ [][\A c \in Callers :
            (Enters(c) /\ state = "OPEN" /\ now - last_failure_time > timeout)
               => (state' = "HALF_OPEN" /\ pc'[c] = "running")]_vars
    /\ [](state = "HALF_OPEN" => halfOpenStreak < success_threshold)
    /\ [][(state = "HALF_OPEN" /\ halfOpenStreak' # halfOpenStreak
              /\ halfOpenStreak' >= success_threshold)
             => (state' = "CLOSED" /\ failures' = 0 /\ successes' = 0)]_vars

\* C3's case: the breaker opened, its timeout passed, and two successes in
\* HALF_OPEN have just closed it
C3_Witness ==
    /\ state = "CLOSED"
    /\ success_threshold = 2
    /\ halfOpenStreak = 2
    /\ last_failure_time # None
    /\ now - last_failure_time > timeout
    /\ \E c \in Callers : pc[c] = "returned" /\ admitted[c] = "HALF_OPEN"

\* C4: while the breaker is HALF_OPEN at most one wrapped function that was
\* let through as a probe is in flight.
C4_SingleProbe ==
    state = "HALF_OPEN" => Cardinality(Probes) <= 1

\* C5: a search whose _fetch_with_maxlag ends with every attempt timed out
\* adds one to the breaker's failures and returns no record.
C5_TimeoutCountsAsFailure ==
    [][\A c \in Callers :
         (Completes(c) /\ attempt[c] = max_retries /\ onlyTimeouts[c])
            => (failures' = failures + 1 /\ result'[c] = "None")]_vars

---------------------------------------------------------------------------
(* RateLimiter: claims C6-C7 *)

\* C6: the acquire calls returned in a window of T seconds are at most
\* rate * T + rate; for the window from the limiter's construction to now,
\* of now / (rate * TokenParts) seconds, that is
\* acquired <= now / TokenParts + rate.
C6_SustainedRate ==
    acquired * TokenParts <= now + rate * TokenParts

\* C7: 3 * rate sequential acquire calls on a fresh limiter take at least
\* 2 / rate seconds (2 * TokenParts ticks) from the first entry to the last
\* return.
C7_ThreeRateCalls ==
    acquired = 3 * rate => now - first_entry >= 2 * TokenParts

---------------------------------------------------------------------------
(* TTLCache: claims C8-C10 *)

\* the entries of _cache, without their order
Entries(entries) == {entries[i] : i \in 1..Len(entries)}

\* the entries of key k
EntriesOf(k) == {e \in Entries(cache) : e.key = k}

\* C8: whatever operations and clock advances came before, a value that get
\* returns is the value of the key's entry and that entry was inserted no
\* more than ttl ago; get on an entry older than ttl returns None, removes
\* the entry and counts one miss and no hit.
C8_NeverStale ==
    [][ret'.op = "get" =>
         /\ ret'.val # "None" =>
              \E e \in EntriesOf(ret'.key) :
                  e.value = ret'.val /\ now - e.ts <= ttl
         /\ \A e \in EntriesOf(ret'.key) :
              now - e.ts > ttl =>
                  /\ ret'.val = "None"
                  /\ Entries(cache') = Entries(cache) \ {e}
                  /\ misses' = misses + 1
                  /\ hits' = hits]_vars

\* C8's case: a get has just found its key's entry older than ttl and
\* dropped it, beside an entry that stays
C8_Witness ==
    /\ ret.op = "get"
    /\ ret.val = "None"
    /\ ret.key \notin CachedKeys
    /\ misses = 1
    /\ hits = 1
    /\ \E e \in Entries(cache) : now - e.ts > ttl

C10_Accounting ==
    /\ [][ret'.op = "get" =>
            IF ret'.val # "None"
            THEN hits' = hits + 1 /\ misses' = misses
            ELSE misses' = misses + 1 /\ hits' = hits]_vars
    /\ [][ret'.op \in {"set", "invalidate"} =>
            hits' = hits /\ misses' = misses]_vars
    /\ [][ret'.op = "stats" =>
            LET q == ret'.val.hit_ratio
            IN  /\ ret'.val.hits = hits /\ ret'.val.misses = misses
                /\ IF hits + misses = 0
                   THEN q = <<0, 1>>
                   ELSE q[2] > 0 /\ q[1] * (hits + misses) = hits * q[2]
                /\ ret'.val.size = Cardinality(CachedKeys)]_vars

\* C10's case: stats after one hit and one miss reports a hit ratio of 1/2
\* over a cache holding an entry
C10_Witness ==
    /\ ret.op = "stats"
    /\ hits = 1 /\ misses = 1
    /\ ret.val.hit_ratio = <<1, 2>>
    /\ ret.val.size = 1

---------------------------------------------------------------------------
(* Orchestration: claims C11-C12 *)

\* C11: whatever each stage of search_wikipedia_cached -> search comes to
\* (construction failure, empty sanitized query, breaker open, timeouts,
\* HTTP errors, a malformed or unusable response), the finished call has
\* returned a parsed record or None: no exception has escaped it
C11_NoExceptionEscapes ==
    \A c \in Callers :
        stage[c] = "done" => outcome[c] \in {"record", "None"}

\* a search rejected by the open breaker has returned None
C11_Witness ==
    /\ stage["c1"] = "done"
    /\ pc["c1"] = "open_error"
    /\ state = "OPEN"
    /\ outcome["c1"] = "None"

\* C12: hybrid_retrieve does not raise when a source fails, whether or not
\* the external source was triggered: a finished call has returned, with []
\* for a failed local retrieval and None for a failed or absent external
\* call, and with the result of every source that did not fail
C12_FailureIsolation ==
    \A c \in Callers :
        hstage[c] = "done" =>
            /\ hybrid[c].kind = "return"
            /\ hybrid[c].local_results =
                   IF local_task[c] \in ExceptionClasses THEN "[]"
                   ELSE local_task[c]
            /\ hybrid[c].wiki_result =
                   IF wiki_task[c] = "record" THEN "record" ELSE "None"

---------------------------------------------------------------------------
(* Ranking: claims C13-C16 *)

\* the 1-based positions of the chunk of identity id in a list of hits
PositionsOf(id, hs) ==
    {i \in 1..Len(hs) : chunk_identifier(hs[i].meta) = id}

\* 1 / (K + rank) for the chunk's position in the list, 0 if it is not in
\* the list
RankTerm(id, hs) ==
    IF PositionsOf(id, hs) = {} THEN <<0, 1>>
    ELSE Quotient(1, rrf_constant + CHOOSE i \in PositionsOf(id, hs) : TRUE)

\* the two searches both found something and _rrf_fuse has fused them
Fused == rstage # "called" /\ vector_hits # <<>> /\ lexical_hits # <<>>

\* C13: the fused score of every chunk _rrf_fuse returns is the sum of
\* 1 / (K + rank) over the lists that hold it, which for a chunk of both
\* lists is more than either term; the output is in descending order of
\* fused score, has at most k entries and no chunk identity twice
C13_FusedScores ==
    Fused =>
        /\ \A i \in 1..Len(retrieved) :
             LET id == chunk_identifier(retrieved[i].meta)
                 v == RankTerm(id, vector_hits)
                 l == RankTerm(id, lexical_hits)
             IN  /\ retrieved[i].score = Plus(v, l)
                 /\ (v # <<0, 1>> /\ l # <<0, 1>>) =>
                        /\ Less(v, retrieved[i].score)
                        /\ Less(l, retrieved[i].score)
        /\ \A i, j \in 1..Len(retrieved) :
             i < j => ~Less(retrieved[i].score, retrieved[j].score)
        /\ Len(retrieved) <= k_results
        /\ \A i, j \in 1..Len(retrieved) :
             i # j => chunk_identifier(retrieved[i].meta)
                          # chunk_identifier(retrieved[j].meta)

\* a chunk found at position 2 by the one search and at position 1 by the
\* other leads the fused list, ahead of a chunk of one list only
C13_Witness ==
    /\ Fused
    /\ Len(retrieved) >= 2
    /\ PositionsOf(chunk_identifier(retrieved[1].meta), vector_hits) = {2}
    /\ PositionsOf(chunk_identifier(retrieved[1].meta), lexical_hits) = {1}
    /\ PositionsOf(chunk_identifier(retrieved[2].meta), lexical_hits) = {}

\* C14: when exactly one of the two searches found something,
\* _single_query_retrieve returns that list cut to k, order and scores as
\* they were; when neither did, it returns the empty list
C14_SingleList ==
    rstage # "called" =>
        /\ (vector_hits # <<>> /\ lexical_hits = <<>>) =>
               retrieved = Take(vector_hits, k_results)
        /\ (vector_hits = <<>> /\ lexical_hits # <<>>) =>
               retrieved = Take(lexical_hits, k_results)
        /\ (vector_hits = <<>> /\ lexical_hits = <<>>) => retrieved = <<>>

\* index.search raised and BM25 ranked k chunks: they are returned
C14_Witness ==
    /\ rstage = "returned"
    /\ faiss.raises
    /\ Len(lexical_hits) = k_results
    /\ retrieved = lexical_hits

\* the positions in all_results of the hits of the chunk of identity id
OccurrencesOf(id) ==
    {i \in 1..Len(all_results) : result_identifier(all_results[i].meta) = id}

\* the greatest raw score among the hits at the positions P
GreatestScore(P) ==
    all_results[CHOOSE i \in P :
                    \A j \in P : ~Less(all_results[i].score,
                                       all_results[j].score)].score

C16_OrderIndependent ==
    rstage = "swapped" =>
        /\ Len(fused_swapped) = Len(retrieved)
        /\ \A i \in 1..Len(retrieved) :
             chunk_identifier(fused_swapped[i].meta)
                 = chunk_identifier(retrieved[i].meta)


---------------------------------------------------------------------------
(* Query expansion and the trigger: claims C17-C18 *)

\* q.strip().lower(), the form two queries are compared in
Normalized(q) == Lower(Strip(q))

\* the place in `candidates` of the first query of the form of q
FirstOccurrence(q) ==
    CHOOSE p \in 1..Len(candidates) :
        /\ Normalized(candidates[p]) = Normalized(q)
        /\ \A o \in 1..(p - 1) :
               Normalized(candidates[o]) # Normalized(q)

\* the places in `candidates` of the first query of each non-empty form
FirstOccurrences ==
    {p \in 1..Len(candidates) :
        /\ Normalized(candidates[p]) # <<>>
        /\ \A o \in 1..(p - 1) :
               Normalized(candidates[o]) # Normalized(candidates[p])}

\* C17: generate_multi_queries(original, n) for a non-blank original and
\* n >= 1, whatever the backend returns or raises, returns a list whose
\* first element is the trimmed original, of at least 1 and at most n
\* elements, no two of them equal after trimming and lowercasing: the
\* elements are the trimmed first occurrences of the forms of the original
\* and the variations, in their order, up to the n-th.
C17_OriginalFirstNoDuplicates ==
    (qstage = "returned" /\ Strip(original_query) # <<>> /\ num_queries >= 1)
        => LET r == returned_queries
           IN  /\ Len(r) >= 1
               /\ Len(r) <= num_queries
               /\ r[1] = Strip(original_query)
               /\ \A i, j \in 1..Len(r) :
                      Normalized(r[i]) = Normalized(r[j]) => i = j
               /\ \A i \in 1..Len(r) :
                      /\ \E p \in 1..Len(candidates) :
                             Normalized(candidates[p]) = Normalized(r[i])
                      /\ r[i] = Strip(candidates[FirstOccurrence(r[i])])
               /\ \A i, j \in 1..Len(r) :
                      i < j => FirstOccurrence(r[i]) < FirstOccurrence(r[j])
               /\ \A p \in FirstOccurrences :
                      \/ \E i \in 1..Len(r) : FirstOccurrence(r[i]) = p
                      \/ /\ Len(r) = num_queries
                         /\ FirstOccurrence(r[Len(r)]) < p

\* the backend has answered with the original in other letters and with
\* another variation, and the call has returned both forms
C17_Witness ==
    /\ qstage = "returned"
    /\ Strip(original_query) # <<>>
    /\ use_llm
    /\ ~llm.raises
    /\ \E p \in 2..Len(candidates) :
           /\ Normalized(candidates[p]) = Normalized(original_query)
           /\ candidates[p] # original_query
    /\ Len(returned_queries) >= 2
    /\ Len(returned_queries) < Len(candidates)


\* the phrases that trigger the external source
TriggerPhrases ==
    {<<"w", "h", "a", "t", " ", "i", "s">>, <<"w", "h", "o", " ", "i", "s">>,
     <<"d", "e", "f", "i", "n", "e">>, <<"e", "x", "p", "l", "a", "i", "n">>,
     <<"d", "e", "s", "c", "r", "i", "b", "e">>,
     <<"t", "e", "l", "l", " ", "m", "e", " ", "a", "b", "o", "u", "t">>}

\* the whitespace-separated words of q longer than one character that begin
\* with an uppercase letter, by their places
CapitalizedWords(q) ==
    {i \in 1..Len(Split(q)) :
        /\ Len(Split(q)[i]) > 1
        /\ \E u \in 1..Len(UpperCase) : Split(q)[i][1] = UpperCase[u]}

\* C18: with the external source enabled, should_query_wikimedia(query) is
\* true exactly when the lowercased query starts with a trigger phrase or
\* the query has at least 2 words longer than one character that begin
\* with an uppercase letter: true for 'What is photosynthesis?' and
\* 'Einstein Theory', false for 'calculate 2 + 2' and 'How do I fix this
\* bug?'. With the source disabled it is false.
C18_TriggerHeuristic ==
    asked # <<>>
        => /\ WIKIMEDIA_ENABLED
               => /\ should_query
                      <=> \/ \E t \in TriggerPhrases :
                                 StartsWith(Lower(asked[1]), t)
                          \/ Cardinality(CapitalizedWords(asked[1])) >= 2
                  /\ asked[1] \in {test_query.photosynthesis,
                                    test_query.einstein}
                         => should_query
                  /\ asked[1] \in {test_query.calculate, test_query.fix_bug}
                         => ~should_query
           /\ ~WIKIMEDIA_ENABLED => ~should_query

\* enabled, 'How do I fix this bug?' has been asked: two words begin with
\* an uppercase letter, one of them "I", and the answer was no
C18_Witness ==
    /\ WIKIMEDIA_ENABLED
    /\ asked = <<test_query.fix_bug>>
    /\ ~should_query


---------------------------------------------------------------------------
(* The request URL and the User-Agent: claims C19-C20 *)

\* the place of the first ch in s, or 0
FirstIndex(s, ch) ==
    IF \E i \in 1..Len(s) : s[i] = ch
    THEN CHOOSE i \in 1..Len(s) : s[i] = ch /\ \A j \in 1..(i - 1) : s[j] # ch
    ELSE 0

\* the parts of s between the characters ch
RECURSIVE SplitOn(_, _)
SplitOn(s, ch) ==
    IF FirstIndex(s, ch) = 0 THEN <<s>>
    ELSE <<SubSeq(s, 1, FirstIndex(s, ch) - 1)>>
             \o SplitOn(SubSeq(s, FirstIndex(s, ch) + 1, Len(s)), ch)

\* the parameters a server reads from a URL: what follows the first "?",
\* split at every "&", each part split at its first "="
UrlParameters(u) ==
    LET parts == SplitOn(SubSeq(u, FirstIndex(u, "?") + 1, Len(u)), "&")
    IN  [i \in 1..Len(parts) |->
            IF FirstIndex(parts[i], "=") = 0
            THEN [k |-> parts[i], v |-> <<>>]
            ELSE [k |-> SubSeq(parts[i], 1, FirstIndex(parts[i], "=") - 1),
                  v |-> SubSeq(parts[i], FirstIndex(parts[i], "=") + 1,
                               Len(parts[i]))]]

\* the values the URL u carries for the parameter key
UrlValues(u, key) ==
    {UrlParameters(u)[i].v :
        i \in {j \in 1..Len(UrlParameters(u)) : UrlParameters(u)[j].k = key}}

\* the names of the caller's parameters
CallerNames == {api_params[i].k : i \in 1..Len(api_params)}

\* C19: _build_url(action, params) raises ValueError, and produces no URL,
\* for an action outside {query, parse, opensearch}; otherwise the URL
\* carries action=<action>, format=json, formatversion=2 and, of the
\* caller's parameters, exactly those in the whitelist of the action, each
\* once: no parameter of the caller outside the whitelist is in the URL,
\* and none overrides action, format or formatversion.
C19_WhitelistedParameters ==
    built_url.ended # "-"
        => IF api_action \notin {api_actions.query, api_actions.parse,
                                 api_actions.opensearch}
           THEN built_url.ended = "ValueError" /\ built_url.url = <<>>
           ELSE /\ built_url.ended = "returned"
                /\ FirstIndex(built_url.url, "?") = Len(api_endpoint) + 1
                /\ UrlValues(built_url.url, param.action) = {api_action}
                /\ UrlValues(built_url.url, param.format)
                     = {<<"j", "s", "o", "n">>}
                /\ UrlValues(built_url.url, param.formatversion) = {<<"2">>}
                /\ {UrlParameters(built_url.url)[i].k :
                       i \in 1..Len(UrlParameters(built_url.url))}
                     = {param.action, param.format, param.formatversion}
                           \cup (CallerNames \cap PARAM_WHITELIST(api_action))
                /\ \A i, j \in 1..Len(UrlParameters(built_url.url)) :
                       UrlParameters(built_url.url)[i].k
                           = UrlParameters(built_url.url)[j].k => i = j

\* a URL has been built for a caller who passed a whitelisted parameter, a
\* parameter named format, and a value that spells out a parameter
C19_Witness ==
    /\ built_url.ended = "returned"
    /\ param.format \in CallerNames
    /\ \E i \in 1..Len(api_params) :
           /\ api_params[i].k \in PARAM_WHITELIST(api_action)
           /\ api_params[i].v = StrValue(v_injection)

\* the words of a User-Agent that name the project, that refer to a place
\* of contact, and that hold an email address
ProjectIdentifiers == {"StudyTutorRAG/2.0"}
ContactReferences == {"(https://example.com;", "(https://example.com)",
                      "(https://github.com/user/StudyTutor;"}
EmailAddresses == {"test@example.com)", "studytutor@example.com)"}

\* ua has a word of the set
Includes(ua, wordset) == \E i \in 1..Len(ua.words) : ua.words[i] \in wordset

\* C20: the construction of a WikimediaRetriever ends in ValueError unless
\* the User-Agent includes a project identifier, a contact reference and an
\* email address (here with httpx installed, where the User-Agent is
\* looked at).
C20_UserAgentPolicy ==
    (httpx_installed /\ constructed # "-")
        => \/ /\ user_agent.given
              /\ Includes(user_agent, ProjectIdentifiers)
              /\ Includes(user_agent, ContactReferences)
              /\ Includes(user_agent, EmailAddresses)
           \/ constructed = "ValueError"

---------------------------------------------------------------------------
(* CircuitBreaker under concurrent calls: claims C27-C29 *)

\* C27: over all interleavings of concurrent calls, whenever the state is
\* OPEN, failures >= failure_threshold and last_failure_time is set (so
\* that the first failure after the move to HALF_OPEN opens the breaker
\* again).
C27_OpenMeansThresholdReached ==
    state = "OPEN"
        => /\ failures >= failure_threshold
           /\ last_failure_time # None

\* a step in which the call of caller c is rejected with
\* CircuitBreakerOpenError
Rejected(c) == pc[c] = "idle" /\ pc'[c] = "open_error"

\* C28: a call rejected with CircuitBreakerOpenError leaves state,
\* failures, successes and last_failure_time as they were: it neither
\* counts as a failure nor extends the open period.
C28_RejectionChangesNothing ==
    [][\A c \in Callers :
           (Rejected(c) \/ (pc[c] = "open_error" /\ pc'[c] = "idle"))
               => UNCHANGED <<state, failures, successes,
                              last_failure_time>>]_vars

\* a call has been rejected later than the failure that opened the breaker,
\* while the other caller's function is still running
C28_Witness ==
    /\ state = "OPEN"
    /\ pc["c1"] = "open_error"
    /\ pc["c2"] = "running"
    /\ last_failure_time # None
    /\ last_failure_time < now

\* a step in which the wrapped function of some caller raises
Fails == \E c \in Callers : pc[c] = "running" /\ pc'[c] = "raised"

\* C29: if from some point on every invocation of the wrapped function
\* succeeds, while time keeps advancing and callers keep calling, the
\* breaker is eventually CLOSED and stays CLOSED.
C29_EventuallyClosedForGood ==
    <>[][~Fails]_vars => <>[](state = "CLOSED")

\* past MaxTime ticks: the breaker had opened, success_threshold successes
\* in HALF_OPEN have closed it, and every caller is between calls
C29_Witness ==
    /\ state = "CLOSED"
    /\ failures = 0
    /\ last_failure_time # None
    /\ now = MaxTime
    /\ halfOpenStreak >= success_threshold
    /\ \A c \in Callers : pc[c] = "idle"

---------------------------------------------------------------------------
(* TTLCache.set on a cached key: claim C30 *)

\* C30: a set of a key that is already cached, into a cache that holds
\* max_size entries, leaves the number of entries as it was and every entry
\* of another key in the cache; the key's entry carries the insertion time
\* of the set.
C30_SetOfCachedKeyEvictsNothing ==
    [][(ret'.op = "set" /\ ret'.key \in CachedKeys /\ Len(cache) = max_size)
         => /\ Len(cache') = Len(cache)
            /\ \A e \in Entries(cache) :
                   e.key # ret'.key => e \in Entries(cache')
            /\ \A e \in Entries(cache') :
                   e.key = ret'.key => e.ts = now]_vars

---------------------------------------------------------------------------
(* _fetch_with_maxlag: claim C23 *)

\* C23: whatever the server answers, _fetch_with_maxlag makes at most
\* max_retries GETs: a GET is the (attempt + 1)-th of at most max_retries,
\* and the function goes on to another one only after a 503, a timeout or a
\* 5xx, always after a 503 with a number of seconds and after a timeout; a
\* 4xx raises at once, a non-503 5xx raises at the last attempt, and when
\* the attempts are used up the function returns None.
C23_BoundedRetries ==
    /\ [](\A c \in Callers : attempt[c] <= max_retries)
    /\ [][\A c \in Callers, r \in Responses :
            FetchAttempt(c, r) =>
               /\ attempt[c] + 1 <= max_retries
               /\ IF pc'[c] = "running"
                  THEN /\ attempt'[c] = attempt[c] + 1
                       /\ r \in {"503", "timeout", "500"}
                  ELSE attempt'[c] = attempt[c]
               /\ r \in {"503", "timeout"} => pc'[c] = "running"
               /\ r = "404" => pc'[c] = "raised"
               /\ (r = "500" /\ attempt[c] = max_retries - 1)
                     => pc'[c] = "raised"]_vars
    /\ [][\A c \in Callers :
            (Completes(c) /\ attempt[c] = max_retries)
               => pc'[c] = "returned" /\ result'[c] = "None"]_vars

\* C23's case: a fetch whose max_retries GETs were answered by 503s and
\* timeouts, not by timeouts alone, has returned None
C23_Witness ==
    \E c \in Callers :
        /\ pc[c] = "returned"
        /\ attempt[c] = max_retries
        /\ ~onlyTimeouts[c]
        /\ result[c] = "None"

---------------------------------------------------------------------------
(* _parse_response: claim C24 *)

\* C24: the extract of a record that _parse_response returns has at least
\* MinExtractLength and at most max_extract_length characters.
C24_ExtractLengthBounds ==
    parsed.ended = "record" =>
        /\ Len(parsed.extract) >= MinExtractLength
        /\ Len(parsed.extract) <= max_extract_length

---------------------------------------------------------------------------
(* retrieve: claim C21 *)

\* the hits of the generated queries whose retrieval did not raise, one
\* list after the other
RECURSIVE HitsOfTheOthers(_)
HitsOfTheOthers(outcomes) ==
    IF outcomes = <<>> THEN <<>>
    ELSE (IF Head(outcomes).raises THEN <<>> ELSE Head(outcomes).hits)
            \o HitsOfTheOthers(Tail(outcomes))

\* C21: when retrieve with use_multi_query has returned and the retrieval
\* of one generated query raised while other generated queries brought
\* hits, the call returned deduplicate_results of the hits of the others.
C21_VariantFailureIsolated ==
    (/\ retrieve_result.ended # "-"
     /\ use_multi_query
     /\ \E i \in 1..Len(per_query) : per_query[i].raises
     /\ HitsOfTheOthers(per_query) # <<>>)
       => retrieve_result =
            [ended |-> "returned",
             hits |-> deduplicate_results(HitsOfTheOthers(per_query),
                                          k_retrieve)]

---------------------------------------------------------------------------
(* load_index_and_meta: claim C25 *)

\* the stored configuration disagrees with the runtime's backend, model or
\* dimension
ConfigurationDrift ==
    /\ index_files
    /\ stored_config.kind = "config"
    /\ stored_config.dim.given # "text"
    /\ mismatches(EMBED_BACKEND, stored_config, index_d) # <<>>

\* the stored configuration cannot be read or compared
ValidationFails ==
    /\ index_files
    /\ \/ stored_config.kind = "not_json"
       \/ stored_config.kind = "config" /\ stored_config.dim.given = "text"

\* C25: a load that finds the stored configuration in disagreement with the
\* runtime does not hand back the index as usable (it raises, or returns no
\* index), and a validation that fails itself is reported above debug
\* level or raised.
C25_DriftSurfaced ==
    loaded.ended # "-" =>
        /\ ConfigurationDrift =>
              loaded.ended = "raised" \/ loaded.index = "None"
        /\ ValidationFails =>
              \/ loaded.ended = "raised"
              \/ loaded.logged.level \notin {"-", "debug"}

---------------------------------------------------------------------------
(* search_wikipedia_cached, the order of its stages: claim C22 *)

\* C22: a call that finds its key cached returns the cached record and
\* leaves the rate limiter, the circuit breaker, the fetch and the HTTP
\* client as they were; an entry comes into the cache, or is replaced,
\* only in the step in which a fetch has returned a record to its caller,
\* and a call that gives None adds nothing to the cache.
C22_HitSkipsFetchAndOnlyRecordsAreCached ==
    /\ [][hits' = hits + 1 =>
            /\ UNCHANGED <<limiterVars, breakerVars, fetchVars, client>>
            /\ \E c \in Callers :
                  /\ stage[c] = "idle" /\ stage'[c] = "done"
                  /\ cache_key(query'[c]) \in CachedKeys
                  /\ outcome'[c] = Entry(cache_key(query'[c])).value]_vars
    /\ [][~(Entries(cache') \subseteq Entries(cache)) =>
            \E c \in Callers :
                /\ stage[c] = "fetching" /\ stage'[c] = "done"
                /\ pc'[c] = "returned"
                /\ outcome'[c] = "record"
                /\ Entries(cache') \ Entries(cache) =
                      {[key |-> cache_key(query[c]), ts |-> now,
                        value |-> "record"]}]_vars
    /\ [][\A c \in Callers :
            (stage[c] # "done" /\ stage'[c] = "done"
                /\ outcome'[c] # "record")
               => Entries(cache') \subseteq Entries(cache)]_vars

\* C22's case: after a fetch that took a token and cached its record, a
\* second call has found the record in the cache and returned it
C22_Witness ==
    /\ hits = 1
    /\ tokens < rate * TokenParts
    /\ ret.op = "get"
    /\ ret.val = "record"
    /\ \E c \in Callers :
          /\ stage[c] = "done"
          /\ outcome[c] = "record"
          /\ cache_key(query[c]) \in CachedKeys

---------------------------------------------------------------------------
(* The shared retriever under concurrent requests: claim C26 *)

\* C26: a request that is about to send its GET, or has one in flight,
\* has an open client that is the retriever's _client (no other request's
\* entry replaced it, no other request's exit closed it), and once no
\* request is inside the retriever every client that was opened is closed.
C26_ClientNotSharedAcrossRequests ==
    /\ \A c \in Callers :
          /\ request[c] = "entered" => http_clients[self_client] = "open"
          /\ request[c] = "in_flight" =>
                /\ http_clients[in_flight[c]] = "open"
                /\ in_flight[c] = self_client
    /\ (\A c \in Callers : request[c] = "idle") =>
          \A i \in 1..Len(http_clients) : http_clients[i] = "closed"
===========================================================================
